---- MODULE Spec2Model ----
(***************************************************************************)
(* State-machine model of the CSGLRP front end: the axios client with its  *)
(* response interceptor, the AuthProvider session store, the ProtectedRoute *)
(* guard, and the CaseList, CaseDetail and CaseModal components.  One unit  *)
(* of the component tree is observed per behaviour (variable mounted); the  *)
(* backend is the environment and answers every request in flight with any  *)
(* response, in any order.                                                  *)
(***************************************************************************)
EXTENDS Integers, Sequences, FiniteSets, TLC

\* ---------------------------------------------------------------- bounds
\* Number of requests that may be in flight together.
MaxInflight == 2

\* Number of pages the backend may report for a list.
MaxPages == 2
\* Rows a field array of the editor can hold.
MaxRows == 1
\* Files in one drop.
MaxDrop == 2

\* Entries in the tag list the backend returns to the dashboard.
MaxTags == 3
\* Characters typed in the tags input.
MaxTagChars == 3

\* The keywords typed and the tags offered ("" is the empty input).
Keywords == {"", "k"}
Tags == {"", "t"}
CaseIds == {"c1"}
\* The storage keys the backend gives out, in the order used to list a set.
AllKeys == <<"a", "b">>
\* The attachments of the case when the detail page is opened.
StoredKeys == AllKeys

\* ------------------------------------------------------- program constants
NoToken == "none"
NoUser == "none"
\* What localStorage 'user' can hold: nothing, a JSON user, or text that
\* JSON.parse rejects.
StoredUsers == {"none", "u0", "u1", "corrupt"}

\* The responses the backend (or the network) can give to a call: an HTTP
\* status (0 = no response received) and, for a 2xx answer, the envelope code.
Responses ==
    { [status |-> 200, code |-> 200], [status |-> 200, code |-> 400],
      [status |-> 401, code |-> 0], [status |-> 403, code |-> 0],
      [status |-> 404, code |-> 0], [status |-> 500, code |-> 0],
      [status |-> 0, code |-> 0] }

\* The answers given to the calls of a page: one of each kind its handlers
\* and the interceptor tell apart by more than the notification's text.
PageResponses == {r \in Responses : r.status \in {200, 401, 500, 0}}
\* The answers given under the editor: success, a refusal in the envelope, a
\* server error.
EditorResponses == {r \in Responses : r.status \in {200, 500}}

\* axios rejects every answer outside 2xx and every call without an answer.
IsError(r) == r.status < 200 \/ r.status >= 300

Err(m) == [kind |-> "error", msg |-> m]
Ok(m) == [kind |-> "success", msg |-> m]
Plain(m) == [kind |-> "plain", msg |-> m]

ErrCount(ts) == Cardinality({i \in DOMAIN ts : ts[i].kind = "error"})
OkCount(ts) == Cardinality({i \in DOMAIN ts : ts[i].kind = "success"})

VARIABLES
    mounted,      \* the unit of the component tree under observation
    hash,         \* window.location.hash, as the route it selects
    lsToken,      \* localStorage 'token'
    lsUser,       \* localStorage 'user'
    user,         \* AuthProvider: user
    isLoading,    \* AuthProvider: isLoading
    authPc,       \* position of initAuth: "init", "whoami", "done"
    loginLoading, \* Login: loading
    inflight,     \* requests sent and not yet answered, in sending order
    step,         \* the handler run by the latest step
    lastResp,     \* the answer the latest step handled, if it handled one
    toasts,       \* notifications raised by the latest step, in order
    hrefWrites,   \* assignments to window.location.href by the latest step
    sent,         \* requests sent by the latest step, in order
    confirmed,    \* answers window.confirm gave in the latest step
    listPc,       \* CaseList: "mount" until its effects have run, then "ready"
    url,          \* the query string of the location (searchParams)
    page,         \* CaseList: page
    totalPages,   \* CaseList: totalPages
    loading,      \* CaseList: loading
    keyword,      \* CaseList: keyword
    selectedTag,  \* CaseList: selectedTag
    sortDir,      \* CaseList: sortDir
    cases,        \* CaseList: cases, as the page number of the answer that filled it
    availableTags,\* CaseList: availableTags
    dropped,      \* sizes of the files handed to onDrop by the latest step
    detailPc,     \* CaseDetail: "mount" until its effect has run, then "ready"
    data,         \* CaseDetail: data, as whether it is set, its attachments and rows
    dLoading,     \* CaseDetail: loading
    selectedAttachments, \* CaseDetail: selectedAttachments
    host,         \* the page that renders the editor: "list" or "detail"
    isOpen,       \* CaseList: isModalOpen / CaseDetail: isEditModalOpen
    editingCase,  \* CaseList: editingCase
    isSubmitting, \* CaseList: isSubmitting
    title,        \* CaseModal form: title
    caseRecord,   \* CaseModal form: caseRecord
    legalProvisions,    \* CaseModal form: legalProvisions rows
    preventionMeasures, \* CaseModal form: preventionMeasures rows
    errors,       \* CaseModal formState.errors, the two fields the form displays
    isSubmitted,  \* CaseModal formState.isSubmitted
    attachments,  \* CaseModal form: attachments, as storage keys
    uploading,    \* CaseModal: uploading
    dbAtt,        \* backend: the attachment list stored with the case
    dbRegs,       \* backend: the legal provisions stored with the case
    dbMeas,       \* backend: the prevention measures stored with the case
    allocated,    \* backend: storage keys ever given out
    deletedFiles, \* backend: storage keys whose file has been deleted
    dashPc,       \* position of fetchDashboardData: "mount", "cases", "tags", "done"
    casesRes,     \* fetchDashboardData: casesRes, as its code, totalElements and rows
    tagsRes,      \* fetchDashboardData: tagsRes, as its code and tag list
    statsData,    \* Dashboard: statsData
    dashLoading,  \* Dashboard: loading
    tagsField,    \* CaseModal form: tags, the text of the input as a list of characters
    payloadTags,  \* payload.tags as built by the latest submit
    draggedItemIndex, \* CaseModal: draggedItemIndex, from 1; 0 is null
    dragTarget    \* the index handed to the latest drag handler, from 1

shellVars == <<hash, lsToken, lsUser, user, isLoading, authPc, loginLoading>>
outVars == <<step, lastResp, toasts, hrefWrites, sent, confirmed, dropped>>
listVars == <<listPc, url, page, totalPages, loading, keyword, selectedTag, sortDir,
              cases, availableTags>>
detailVars == <<detailPc, data, dLoading, selectedAttachments>>
formVars == <<title, caseRecord, legalProvisions, preventionMeasures, errors, isSubmitted,
              attachments>>
editorVars == <<host, isOpen, editingCase, isSubmitting, formVars, uploading>>
backendVars == <<dbAtt, dbRegs, dbMeas, allocated, deletedFiles>>
dashVars == <<dashPc, casesRes, tagsRes, statsData, dashLoading>>
payloadVars == <<tagsField, payloadTags>>
dragVars == <<draggedItemIndex, dragTarget>>
pageVars == <<listVars, detailVars, editorVars, backendVars, dashVars, payloadVars,
              dragVars>>

\* The answers a request of a page can get.
Answers == IF mounted \in {"form", "files", "drag"} THEN EditorResponses ELSE PageResponses

\* ------------------------------------------------------------ API client
\* The response interceptor's error branch: which notification it raises.
InterceptorToasts(r, h) ==
    IF r.status # 0
    THEN IF r.status = 401
         THEN IF h # "login" THEN <<Err("expired")>> ELSE <<>>
         ELSE IF r.status = 403 THEN <<Err("forbidden")>>
         ELSE IF r.status >= 500 THEN <<Err("server")>>
         ELSE <<Err("backend")>>
    ELSE <<Err("network")>>

InterceptorRedirects_Always(r, h) == r.status = 401

\* Whether the interceptor assigns window.location.href = '/#/login'.
InterceptorRedirects(r, h) == r.status = 401 /\ h # "login"

InterceptorClears_AnyError(r) == IsError(r)

\* Whether the interceptor removes 'token' and 'user' from localStorage.
InterceptorClears(r) == r.status = 401

\* The interceptor as a whole, for an answer r arriving with location h and
\* storage (tok, usr): the storage, location and notifications after it.
Interceptor(r, h, tok, usr) ==
    IF IsError(r)
    THEN [tok |-> IF InterceptorClears(r) THEN NoToken ELSE tok,
          usr |-> IF InterceptorClears(r) THEN NoUser ELSE usr,
          hash |-> IF InterceptorRedirects(r, h) THEN "login" ELSE h,
          toasts |-> InterceptorToasts(r, h),
          href |-> IF InterceptorRedirects(r, h) THEN 1 ELSE 0]
    ELSE [tok |-> tok, usr |-> usr, hash |-> h, toasts |-> <<>>, href |-> 0]

\* A request: the endpoint called; the list parameters it carries (for a case
\* delete: those its handler will fetch again); the case id or the attachment
\* keys it carries; the attachment list its handler has captured; the sizes
\* of the files it uploads; the rows of the case it saves; and whether the component that awaits it is gone.
NoP == [page |-> 0, keyword |-> "", tag |-> "", sortDir |-> ""]
Req(k, p, keys) ==
    [kind |-> k, p |-> p, keys |-> keys, cap |-> <<>>, sizes |-> <<>>, regs |-> <<>>,
     meas |-> <<>>, orphan |-> FALSE]
ReqAtt(k, keys, cap) == [Req(k, NoP, keys) EXCEPT !.cap = cap]
ReqFiles(k, sizes) == [Req(k, NoP, <<>>) EXCEPT !.sizes = sizes]
ReqSave(k, att, regs, meas) == [Req(k, NoP, att) EXCEPT !.regs = regs, !.meas = meas]
CanSend(n) == Len(inflight) + n <= MaxInflight
Remove(s, i) == SubSeq(s, 1, i - 1) \o SubSeq(s, i + 1, Len(s))

NoResp == [req |-> Req("none", NoP, <<>>), status |-> 0, code |-> 0, at |-> "none"]
\* The answer r to request q, arriving while the location is h.
Answered(q, r, h) == [req |-> q, status |-> r.status, code |-> r.code, at |-> h]

\* if (!window.confirm(...)) return: the handler goes on when the user accepts.
Confirm_Ignored(answer) == TRUE
Confirm(answer) == answer

\* What a step leaves for the observer.
Out(name, resp, ts, href, reqs, conf) ==
    /\ step' = name
    /\ lastResp' = resp
    /\ toasts' = ts
    /\ hrefWrites' = href
    /\ sent' = reqs
    /\ confirmed' = conf
    /\ dropped' = <<>>

\* ------------------------------------------------------------ route guard
\* ProtectedRoute: what the router shows at location h.
ProtectedRoute(h, ld, u) ==
    IF h = "login" THEN "login"
    ELSE IF ld THEN "spinner"
    ELSE IF u = NoUser THEN "redirect"
    ELSE "children"

\* <Navigate to="/login" replace/> takes effect as soon as it is rendered.
Routed(h, ld, u) ==
    IF ProtectedRoute(h, ld, u) = "redirect" THEN "login" ELSE h

ProtectedViewRendered == ProtectedRoute(hash, isLoading, user) = "children"

\* Leaving the login route unmounts Login: its loading flag is gone and the
\* continuations of its requests no longer reach a mounted component.
Orphaned(reqs, h) ==
    IF h = "login" THEN reqs
    ELSE [i \in DOMAIN reqs |->
            IF reqs[i].kind = "login" THEN [reqs[i] EXCEPT !.orphan = TRUE] ELSE reqs[i]]

\* ------------------------------------------------ session store and login
Parsed_Never(usr, u) == u

\* setUser(JSON.parse(storedUser)): a stored user that does not parse leaves
\* the in-memory user as it is.
Parsed(usr, u) == IF usr \in {"u0", "u1"} THEN usr ELSE u

\* initAuth up to its await: with a stored token the stored user is restored
\* and whoami is sent; without one loading ends at once.
InitAuth ==
    /\ mounted = "app"
    /\ authPc = "init"
    /\ IF lsToken # NoToken
       THEN /\ CanSend(1)
            /\ user' = Parsed(lsUser, user)
            /\ inflight' = Append(inflight, Req("whoami", NoP, <<>>))
            /\ authPc' = "whoami"
            /\ Out("InitAuth", NoResp, <<>>, 0, <<Req("whoami", NoP, <<>>)>>, <<>>)
            /\ UNCHANGED <<isLoading, hash>>
       ELSE /\ isLoading' = FALSE
            /\ authPc' = "done"
            /\ hash' = Routed(hash, FALSE, user)
            /\ Out("InitAuth", NoResp, <<>>, 0, <<>>, <<>>)
            /\ UNCHANGED <<user, inflight>>
    /\ UNCHANGED <<lsToken, lsUser, loginLoading, mounted, pageVars>>

\* initAuth after its await: the answer to whoami.
WhoamiResponse ==
    \E i \in DOMAIN inflight, r \in Responses :
        /\ mounted = "app"
        /\ inflight[i].kind = "whoami"
        /\ LET ic == Interceptor(r, hash, lsToken, lsUser)
               ok == ~IsError(r) /\ r.code = 200
           IN  /\ user' = IF ok THEN "u1" ELSE user
               /\ lsUser' = IF ok THEN "u1" ELSE ic.usr
               /\ lsToken' = ic.tok
               /\ isLoading' = FALSE
               /\ authPc' = "done"
               /\ hash' = Routed(ic.hash, FALSE, user')
               /\ Out("WhoamiResponse", Answered(inflight[i], r, hash), ic.toasts,
                      ic.href, <<>>, <<>>)
        /\ inflight' = Remove(inflight, i)
        /\ UNCHANGED <<loginLoading, mounted, pageVars>>

\* Login.onSubmit up to its await.
LoginSubmit ==
    /\ mounted = "app"
    /\ hash = "login"
    /\ ~loginLoading
    /\ CanSend(1)
    /\ loginLoading' = TRUE
    /\ inflight' = Append(inflight, Req("login", NoP, <<>>))
    /\ Out("LoginSubmit", NoResp, <<>>, 0, <<Req("login", NoP, <<>>)>>, <<>>)
    /\ UNCHANGED <<hash, lsToken, lsUser, user, isLoading, authPc, mounted, pageVars>>

LoginAccepted_AnyCode(r) == ~IsError(r)

\* Login.onSubmit: the await returned and res.data.code === 200.
LoginAccepted(r) == ~IsError(r) /\ r.code = 200

\* Login.onSubmit after its await, with AuthProvider.login on code 200.
LoginResponse ==
    \E i \in DOMAIN inflight, r \in Responses :
        /\ mounted = "app"
        /\ inflight[i].kind = "login"
        /\ LET ic == Interceptor(r, hash, lsToken, lsUser)
               ok == LoginAccepted(r)
           IN  /\ lsToken' = IF ok THEN "tok" ELSE ic.tok
               /\ lsUser' = IF ok THEN "u1" ELSE ic.usr
               /\ user' = IF ok THEN "u1" ELSE user
               /\ hash' = IF ok THEN Routed("home", isLoading, "u1")
                                ELSE Routed(ic.hash, isLoading, user)
               /\ Out("LoginResponse", Answered(inflight[i], r, hash),
                      IF ok THEN <<Ok("welcome")>>
                      ELSE IF ~IsError(r) THEN <<Err("loginFailed")>>
                      ELSE ic.toasts \o <<Err("loginService")>>,
                      ic.href, <<>>, <<>>)
        /\ loginLoading' = IF hash' # "login" THEN FALSE
                           ELSE IF inflight[i].orphan THEN loginLoading ELSE FALSE
        /\ inflight' = Orphaned(Remove(inflight, i), hash')
        /\ UNCHANGED <<isLoading, authPc, mounted, pageVars>>

Logout_KeepsUser ==
    /\ mounted = "app"
    /\ ProtectedViewRendered
    /\ lsToken' = NoToken
    /\ lsUser' = NoUser
    /\ Out("Logout", NoResp, <<Plain("loggedOut")>>, 0, <<>>, <<>>)
    /\ UNCHANGED <<hash, user, isLoading, authPc, loginLoading, inflight, mounted, pageVars>>

\* AuthProvider.logout, reached from the Layout of a protected view.
Logout ==
    /\ mounted = "app"
    /\ ProtectedViewRendered
    /\ lsToken' = NoToken
    /\ lsUser' = NoUser
    /\ user' = NoUser
    /\ hash' = Routed(hash, isLoading, NoUser)
    /\ Out("Logout", NoResp, <<Plain("loggedOut")>>, 0, <<>>, <<>>)
    /\ UNCHANGED <<isLoading, authPc, loginLoading, inflight, mounted, pageVars>>

\* A protected view sends one of its calls (what the view does with the
\* answer is modelled with the view).
DataCall ==
    /\ mounted = "app"
    /\ ProtectedViewRendered
    /\ CanSend(1)
    /\ inflight' = Append(inflight, Req("data", NoP, <<>>))
    /\ Out("DataCall", NoResp, <<>>, 0, <<Req("data", NoP, <<>>)>>, <<>>)
    /\ UNCHANGED <<shellVars, mounted, pageVars>>

DataResponse ==
    \E i \in DOMAIN inflight, r \in Responses :
        /\ mounted = "app"
        /\ inflight[i].kind = "data"
        /\ LET ic == Interceptor(r, hash, lsToken, lsUser)
           IN  /\ lsToken' = ic.tok
               /\ lsUser' = ic.usr
               /\ hash' = Routed(ic.hash, isLoading, user)
               /\ Out("DataResponse", Answered(inflight[i], r, hash), ic.toasts,
                      ic.href, <<>>, <<>>)
        /\ inflight' = Remove(inflight, i)
        /\ UNCHANGED <<user, isLoading, authPc, loginLoading, mounted, pageVars>>

\* The user changes the location: a link, back/forward, or the address bar.
NavigateHash ==
    \E h \in {"login", "home"} :
        /\ mounted = "app"
        /\ h # hash
        /\ hash' = Routed(h, isLoading, user)
        /\ loginLoading' = IF h # "login" THEN FALSE ELSE loginLoading
        /\ inflight' = Orphaned(inflight, h)
        /\ Out("NavigateHash", NoResp, <<>>, 0, <<>>, <<>>)
        /\ UNCHANGED <<lsToken, lsUser, user, isLoading, authPc, mounted, pageVars>>

\* The user reloads the page: memory is rebuilt, storage and location stay,
\* and the calls of the old document are gone.
Reload ==
    /\ mounted = "app"
    /\ authPc = "done"
    /\ user' = NoUser
    /\ isLoading' = TRUE
    /\ authPc' = "init"
    /\ loginLoading' = FALSE
    /\ inflight' = <<>>
    /\ Out("Reload", NoResp, <<>>, 0, <<>>, <<>>)
    /\ UNCHANGED <<hash, lsToken, lsUser, mounted, pageVars>>

\* ---------------------------------------------------------------- CaseList
\* A query string: for each of the keys 'keyword' and 'tag' either its value
\* or Absent.
Absent == "<absent>"

UrlOf_KeywordOnly(kw, tg) ==
    [keyword |-> IF kw # "" THEN kw ELSE Absent, tag |-> Absent]

UrlOf_TagOnly(kw, tg) ==
    [keyword |-> Absent, tag |-> IF tg # "" THEN tg ELSE Absent]

\* setSearchParams(params): the query string holds keyword and tag, each only
\* when it is non-empty.
UrlOf(kw, tg) ==
    [keyword |-> IF kw # "" THEN kw ELSE Absent,
     tag |-> IF tg # "" THEN tg ELSE Absent]

\* searchParams.get(k) || ''
GetOr(u, k) == IF u[k] = Absent THEN "" ELSE u[k]

\* cases before any answer has filled it.
NoCases == 0

\* cases.length > 0: the backend returns rows exactly for a page that exists.
HasRows(cs, tp) == cs >= 1 /\ cs <= tp

\* The parameters fetchCases puts in its request, from the state it closes over.
FetchParams(pg, kw, tg, dir) == [page |-> pg, keyword |-> kw, tag |-> tg, sortDir |-> dir]

\* The components CaseList and CaseDetail are mounted: observed themselves, or
\* as the host of the editor.
OnList == mounted = "list" \/ (mounted \in {"form", "files", "drag"} /\ host = "list")
OnDetail == mounted = "detail" \/ (mounted \in {"form", "files", "drag"} /\ host = "detail")

ListShown == mounted = "list" /\ hash = "cases" /\ listPc = "ready"

\* The effects of the first render: the tag list is requested, the filters
\* are written to the query string, fetchCases runs.
ListMount ==
    /\ mounted = "list"
    /\ hash = "cases"
    /\ listPc = "mount"
    /\ CanSend(2)
    /\ LET reqs == <<Req("tags", NoP, <<>>),
                     Req("list", FetchParams(page, keyword, selectedTag, sortDir), <<>>)>>
       IN  /\ inflight' = inflight \o reqs
           /\ Out("ListMount", NoResp, <<>>, 0, reqs, <<>>)
    /\ url' = UrlOf(keyword, selectedTag)
    /\ loading' = TRUE
    /\ listPc' = "ready"
    /\ UNCHANGED <<mounted, dragVars, payloadVars, dashVars, editorVars, detailVars, backendVars, shellVars, page, totalPages, keyword, selectedTag, sortDir,
                   cases, availableTags>>

\* The params object fetchCases hands to caseService.getList: keyword and
\* tags are put in only when keyword and selectedTag are non-empty.
ListQuery(p) ==
    [page |-> p.page, size |-> 10, sortDir |-> p.sortDir, sortBy |-> "createDate",
     keyword |-> IF p.keyword # "" THEN p.keyword ELSE Absent,
     tags |-> IF p.tag # "" THEN <<p.tag>> ELSE Absent]

Refetch_Stale(pg, kw, tg, dir) ==
    /\ page' = pg
    /\ keyword' = kw
    /\ selectedTag' = tg
    /\ sortDir' = dir
    /\ url' = UrlOf(kw, tg)
    /\ loading' = TRUE
    /\ inflight' = Append(inflight,
                          Req("list", FetchParams(page, keyword, selectedTag, sortDir), <<>>))
    /\ sent' = <<Req("list", FetchParams(page, keyword, selectedTag, sortDir), <<>>)>>

Refetch_Cancelling(pg, kw, tg, dir) ==
    /\ page' = pg
    /\ keyword' = kw
    /\ selectedTag' = tg
    /\ sortDir' = dir
    /\ url' = UrlOf(kw, tg)
    /\ loading' = TRUE
    /\ inflight' = Append(SelectSeq(inflight, LAMBDA q : q.kind # "list"),
                          Req("list", FetchParams(pg, kw, tg, dir), <<>>))
    /\ sent' = <<Req("list", FetchParams(pg, kw, tg, dir), <<>>)>>

\* What a change of page, keyword, selectedTag or sortDir brings with it: the
\* sync effect writes the query string and the fetch effect runs fetchCases.
Refetch(pg, kw, tg, dir) ==
    /\ page' = pg
    /\ keyword' = kw
    /\ selectedTag' = tg
    /\ sortDir' = dir
    /\ url' = UrlOf(kw, tg)
    /\ loading' = TRUE
    /\ inflight' = Append(inflight, Req("list", FetchParams(pg, kw, tg, dir), <<>>))
    /\ sent' = <<Req("list", FetchParams(pg, kw, tg, dir), <<>>)>>

\* The keyword input's onChange.
SetKeyword ==
    \E k \in Keywords :
        /\ ListShown
        /\ k # keyword
        /\ CanSend(1)
        /\ Refetch(1, k, selectedTag, sortDir)
        /\ step' = "SetKeyword"
        /\ lastResp' = NoResp
        /\ toasts' = <<>>
        /\ hrefWrites' = 0
        /\ confirmed' = <<>>
        /\ dropped' = <<>>
        /\ UNCHANGED <<mounted, dragVars, payloadVars, dashVars, editorVars, detailVars, backendVars, shellVars, listPc, totalPages, cases, availableTags>>

\* The tag select's onChange.
SelectTag ==
    \E t \in availableTags \cup {""} :
        /\ ListShown
        /\ t # selectedTag
        /\ CanSend(1)
        /\ Refetch(1, keyword, t, sortDir)
        /\ step' = "SelectTag"
        /\ lastResp' = NoResp
        /\ toasts' = <<>>
        /\ hrefWrites' = 0
        /\ confirmed' = <<>>
        /\ dropped' = <<>>
        /\ UNCHANGED <<mounted, dragVars, payloadVars, dashVars, editorVars, detailVars, backendVars, shellVars, listPc, totalPages, cases, availableTags>>

\* handlePageChange, from the previous and next buttons of the footer.
HandlePageChange ==
    \E newPage \in {page - 1, page + 1} :
        /\ ListShown
        /\ totalPages > 0
        /\ newPage = page - 1 => page # 1
        /\ newPage = page + 1 => page # totalPages
        /\ IF newPage >= 1 /\ newPage <= totalPages
           THEN /\ CanSend(1)
                /\ Refetch(newPage, keyword, selectedTag, sortDir)
           ELSE /\ sent' = <<>>
                /\ UNCHANGED <<page, keyword, selectedTag, sortDir, url, loading, inflight>>
        /\ step' = "HandlePageChange"
        /\ lastResp' = NoResp
        /\ toasts' = <<>>
        /\ hrefWrites' = 0
        /\ confirmed' = <<>>
        /\ dropped' = <<>>
        /\ UNCHANGED <<mounted, dragVars, payloadVars, dashVars, editorVars, detailVars, backendVars, shellVars, listPc, totalPages, cases, availableTags>>

HandleFilterOrSort_ResetAlsoFlips ==
    /\ ListShown
    /\ CanSend(1)
    /\ IF keyword # "" \/ selectedTag # ""
       THEN /\ Refetch(1, "", "", IF sortDir = "desc" THEN "asc" ELSE "desc")
            /\ toasts' = <<Ok("filtersReset")>>
       ELSE /\ Refetch(page, keyword, selectedTag, IF sortDir = "desc" THEN "asc" ELSE "desc")
            /\ toasts' = <<Ok("sorted")>>
    /\ step' = "HandleFilterOrSort"
    /\ lastResp' = NoResp
    /\ hrefWrites' = 0
    /\ confirmed' = <<>>
    /\ dropped' = <<>>
    /\ UNCHANGED <<mounted, dragVars, payloadVars, dashVars, editorVars, detailVars, backendVars, shellVars, listPc, totalPages, cases, availableTags>>

\* handleFilterOrSort: resets the filters when one is set, else flips sortDir.
HandleFilterOrSort ==
    /\ ListShown
    /\ CanSend(1)
    /\ IF keyword # "" \/ selectedTag # ""
       THEN /\ Refetch(1, "", "", sortDir)
            /\ toasts' = <<Ok("filtersReset")>>
       ELSE /\ Refetch(page, keyword, selectedTag, IF sortDir = "desc" THEN "asc" ELSE "desc")
            /\ toasts' = <<Ok("sorted")>>
    /\ step' = "HandleFilterOrSort"
    /\ lastResp' = NoResp
    /\ hrefWrites' = 0
    /\ confirmed' = <<>>
    /\ dropped' = <<>>
    /\ UNCHANGED <<mounted, dragVars, payloadVars, dashVars, editorVars, detailVars, backendVars, shellVars, listPc, totalPages, cases, availableTags>>

\* CaseList.handleDelete up to its await: the row's button, window.confirm,
\* then the call; the handler keeps the fetchCases of the render it was made in.
HandleDelete ==
    \E c \in CaseIds, answer \in BOOLEAN :
        /\ ListShown
        /\ ~loading
        /\ HasRows(cases, totalPages)
        /\ IF Confirm(answer)
           THEN /\ CanSend(1)
                /\ inflight' = Append(inflight,
                       Req("deleteCase", FetchParams(page, keyword, selectedTag, sortDir), <<c>>))
                /\ sent' = <<Req("deleteCase", FetchParams(page, keyword, selectedTag, sortDir), <<c>>)>>
           ELSE /\ sent' = <<>>
                /\ UNCHANGED inflight
        /\ step' = "HandleDelete"
        /\ lastResp' = NoResp
        /\ toasts' = <<>>
        /\ hrefWrites' = 0
        /\ confirmed' = <<answer>>
        /\ dropped' = <<>>
        /\ UNCHANGED <<mounted, dragVars, payloadVars, dashVars, editorVars, detailVars, backendVars, shellVars, listVars>>

DeleteSucceeded_Always(r) == TRUE

\* CaseList.handleDelete: the await returns, rather than throws, for every
\* answer axios does not reject; the envelope code is not looked at.
DeleteSucceeded(r) == ~IsError(r)

\* CaseList.handleDelete after its await.
DeleteResponse ==
    \E i \in DOMAIN inflight, r \in Answers :
        /\ mounted = "list"
        /\ inflight[i].kind = "deleteCase"
        /\ LET q == inflight[i]
               ic == Interceptor(r, hash, lsToken, lsUser)
               again == Req("list", q.p, <<>>)
           IN  /\ lsToken' = ic.tok
               /\ lsUser' = ic.usr
               /\ hash' = Routed(ic.hash, isLoading, user)
               /\ IF DeleteSucceeded(r)
                  THEN /\ loading' = TRUE
                       /\ inflight' = Append(Remove(inflight, i), again)
                       /\ Out("DeleteResponse", Answered(q, r, hash), <<Ok("deleted")>>,
                              0, <<again>>, <<>>)
                  ELSE /\ inflight' = Remove(inflight, i)
                       /\ Out("DeleteResponse", Answered(q, r, hash),
                              ic.toasts \o <<Err("deleteFailed")>>, ic.href, <<>>, <<>>)
                       /\ UNCHANGED loading
        /\ UNCHANGED <<mounted, dragVars, payloadVars, dashVars, editorVars, detailVars, backendVars, user, isLoading, authPc, loginLoading, listPc, url, page,
                       totalPages, keyword, selectedTag, sortDir, cases, availableTags>>

\* fetchCases after its await.  The backend reports any number of pages and
\* returns rows exactly for a page that exists.
ListAnswered(counts) ==
    \E i \in DOMAIN inflight, r \in Answers, tp \in counts :
        /\ OnList
        /\ inflight[i].kind = "list"
        /\ LET q == inflight[i]
               ic == Interceptor(r, hash, lsToken, lsUser)
           IN  /\ lsToken' = ic.tok
               /\ lsUser' = ic.usr
               /\ hash' = Routed(ic.hash, isLoading, user)
               /\ IF ~IsError(r) /\ r.code = 200
                  THEN /\ cases' = q.p.page
                       /\ totalPages' = tp
                  ELSE /\ tp = CHOOSE n \in counts : TRUE
                       /\ UNCHANGED <<cases, totalPages>>
               /\ Out("ListResponse", Answered(q, r, hash),
                      IF ~IsError(r)
                      THEN IF r.code = 200 THEN <<>> ELSE <<Err("message")>>
                      ELSE ic.toasts \o <<Err("listFailed")>>,
                      ic.href, <<>>, <<>>)
        /\ loading' = FALSE
        /\ inflight' = Remove(inflight, i)
        /\ UNCHANGED <<mounted, dragVars, payloadVars, dashVars, editorVars, detailVars, backendVars, user, isLoading, authPc, loginLoading, listPc, url, page,
                       keyword, selectedTag, sortDir, availableTags>>

\* The list page's answers range over every page count.
ListResponse == mounted = "list" /\ ListAnswered(0..MaxPages)

\* The tag request's then-callback; the call has no catch.
TagsAnswered(lists) ==
    \E i \in DOMAIN inflight, r \in Answers, ts \in lists :
        /\ OnList
        /\ inflight[i].kind = "tags"
        /\ LET q == inflight[i]
               ic == Interceptor(r, hash, lsToken, lsUser)
           IN  /\ lsToken' = ic.tok
               /\ lsUser' = ic.usr
               /\ hash' = Routed(ic.hash, isLoading, user)
               /\ IF ~IsError(r) /\ r.code = 200
                  THEN availableTags' = ts
                  ELSE /\ ts = CHOOSE l \in lists : TRUE
                       /\ UNCHANGED availableTags
               /\ Out("TagsResponse", Answered(q, r, hash), ic.toasts, ic.href, <<>>, <<>>)
        /\ inflight' = Remove(inflight, i)
        /\ UNCHANGED <<mounted, dragVars, payloadVars, dashVars, editorVars, detailVars, backendVars, user, isLoading, authPc, loginLoading, listPc, url, page,
                       totalPages, loading, keyword, selectedTag, sortDir, cases>>

\* The list page's tag answers range over every tag list.
TagsResponse == mounted = "list" /\ TagsAnswered(SUBSET (Tags \ {""}))

\* CaseList as constructed from the query string u.
ListConstructed(u) ==
    /\ listPc = "mount"
    /\ url = u
    /\ page = 1
    /\ totalPages = 1
    /\ loading = TRUE
    /\ keyword = GetOr(u, "keyword")
    /\ selectedTag = GetOr(u, "tag")
    /\ sortDir = "desc"
    /\ cases = NoCases
    /\ availableTags = {}

\* The user reloads the list page: the component is built again from the
\* query string as it stands, and the calls of the old document are gone.
ListReload ==
    /\ ListShown
    /\ listPc' = "mount"
    /\ page' = 1
    /\ totalPages' = 1
    /\ loading' = TRUE
    /\ keyword' = GetOr(url, "keyword")
    /\ selectedTag' = GetOr(url, "tag")
    /\ sortDir' = "desc"
    /\ cases' = NoCases
    /\ availableTags' = {}
    /\ inflight' = <<>>
    /\ Out("ListReload", NoResp, <<>>, 0, <<>>, <<>>)
    /\ UNCHANGED <<mounted, dragVars, payloadVars, dashVars, editorVars, detailVars, backendVars, shellVars, url>>

\* The query strings the list page can be opened with.
ListUrls ==
    [keyword : Keywords \cup {Absent}, tag : Tags \cup {Absent}]

ListInit == \E u \in ListUrls : ListConstructed(u)

ListIdle == ListConstructed(UrlOf("", ""))

ListNext ==
    \/ ListMount
    \/ SetKeyword
    \/ SelectTag
    \/ HandlePageChange
    \/ HandleFilterOrSort
    \/ HandleDelete
    \/ DeleteResponse
    \/ ListResponse
    \/ TagsResponse
    \/ ListReload

\* -------------------------------------------------------------- CaseDetail
Range(q) == {q[i] : i \in DOMAIN q}
\* A set of keys as a list.
SeqOf(S) == SelectSeq(AllKeys, LAMBDA k : k \in S)
\* attachments.filter(a => !gone.has(a.ossKey))
Without(att, gone) == SelectSeq(att, LAMBDA k : k \notin gone)

NoData == [loaded |-> FALSE, att |-> <<>>, regs |-> <<>>, meas |-> <<>>]
\* The case as a GET of it returns it.
StoredCase == [loaded |-> TRUE, att |-> dbAtt, regs |-> dbRegs, meas |-> dbMeas]

\* The attachment rows and the admin buttons are rendered.
DetailShown ==
    /\ mounted = "detail"
    /\ hash = "detail"
    /\ detailPc = "ready"
    /\ ~dLoading
    /\ data.loaded

\* What the backend does when it answers r to a DELETE of files: on code 200
\* the files are gone and the case no longer lists them.
FilesDeleted(r, keys) ==
    IF ~IsError(r) /\ r.code = 200
    THEN /\ deletedFiles' = deletedFiles \cup keys
         /\ dbAtt' = Without(dbAtt, keys)
    ELSE UNCHANGED <<deletedFiles, dbAtt>>

\* What the backend does when it answers r to a PUT of the case: on code 200
\* the case lists the attachments it was sent.
CaseStored(r, att) ==
    IF ~IsError(r) /\ r.code = 200 THEN dbAtt' = att ELSE UNCHANGED dbAtt

\* The effect on [id]: fetchCase up to its await.
DetailMount ==
    /\ mounted = "detail"
    /\ hash = "detail"
    /\ detailPc = "mount"
    /\ CanSend(1)
    /\ dLoading' = TRUE
    /\ detailPc' = "ready"
    /\ inflight' = Append(inflight, Req("getById", NoP, <<>>))
    /\ Out("DetailMount", NoResp, <<>>, 0, <<Req("getById", NoP, <<>>)>>, <<>>)
    /\ UNCHANGED <<mounted, dragVars, payloadVars, dashVars, editorVars, shellVars, listVars, data, selectedAttachments, backendVars>>

\* fetchCase after its await.
FetchCaseResponse ==
    \E i \in DOMAIN inflight, r \in Answers :
        /\ OnDetail
        /\ inflight[i].kind = "getById"
        /\ LET q == inflight[i]
               ic == Interceptor(r, hash, lsToken, lsUser)
           IN  /\ lsToken' = ic.tok
               /\ lsUser' = ic.usr
               /\ hash' = IF ~IsError(r) /\ r.code # 200 THEN "cases"
                          ELSE Routed(ic.hash, isLoading, user)
               /\ data' = IF ~IsError(r) /\ r.code = 200
                          THEN StoredCase ELSE data
               /\ Out("FetchCaseResponse", Answered(q, r, hash),
                      IF ~IsError(r)
                      THEN IF r.code = 200 THEN <<>> ELSE <<Err("message")>>
                      ELSE ic.toasts \o <<Err("detailFailed")>>,
                      ic.href, <<>>, <<>>)
        /\ dLoading' = FALSE
        /\ inflight' = Remove(inflight, i)
        /\ UNCHANGED <<mounted, dragVars, payloadVars, dashVars, editorVars, user, isLoading, authPc, loginLoading, listVars, detailPc,
                       selectedAttachments, backendVars>>

\* toggleAttachmentSelection, from a row's checkbox.
ToggleAttachmentSelection ==
    \E k \in Range(data.att) :
        /\ DetailShown
        /\ selectedAttachments' = IF k \in selectedAttachments
                                  THEN selectedAttachments \ {k}
                                  ELSE selectedAttachments \cup {k}
        /\ Out("ToggleAttachmentSelection", NoResp, <<>>, 0, <<>>, <<>>)
        /\ UNCHANGED <<mounted, dragVars, payloadVars, dashVars, editorVars, shellVars, listVars, detailPc, data, dLoading, inflight,
                       backendVars>>

\* CaseDetail.handleDelete up to its await.
HandleCaseDelete ==
    \E answer \in BOOLEAN :
        /\ DetailShown
        /\ IF Confirm(answer)
           THEN /\ CanSend(1)
                /\ inflight' = Append(inflight, Req("deleteThisCase", NoP, <<>>))
                /\ Out("HandleCaseDelete", NoResp, <<>>, 0,
                       <<Req("deleteThisCase", NoP, <<>>)>>, <<answer>>)
           ELSE /\ UNCHANGED inflight
                /\ Out("HandleCaseDelete", NoResp, <<>>, 0, <<>>, <<answer>>)
        /\ UNCHANGED <<mounted, dragVars, payloadVars, dashVars, editorVars, shellVars, listVars, detailVars, backendVars>>

\* CaseDetail.handleDelete after its await.
CaseDeleteResponse ==
    \E i \in DOMAIN inflight, r \in Answers :
        /\ mounted = "detail"
        /\ inflight[i].kind = "deleteThisCase"
        /\ LET q == inflight[i]
               ic == Interceptor(r, hash, lsToken, lsUser)
           IN  /\ lsToken' = ic.tok
               /\ lsUser' = ic.usr
               /\ hash' = IF ~IsError(r) THEN "cases" ELSE Routed(ic.hash, isLoading, user)
               /\ Out("CaseDeleteResponse", Answered(q, r, hash),
                      IF ~IsError(r) THEN <<Ok("deleted")>>
                      ELSE ic.toasts \o <<Err("deleteFailed")>>,
                      ic.href, <<>>, <<>>)
        /\ inflight' = Remove(inflight, i)
        /\ UNCHANGED <<mounted, dragVars, payloadVars, dashVars, editorVars, user, isLoading, authPc, loginLoading, listVars, detailVars,
                       backendVars>>

\* handleSingleDelete up to its first await: the handler keeps the data of
\* the render it was made in.
HandleSingleDelete ==
    \E k \in Range(data.att), answer \in BOOLEAN :
        /\ DetailShown
        /\ IF Confirm(answer)
           THEN /\ CanSend(1)
                /\ inflight' = Append(inflight, ReqAtt("deleteFile", <<k>>, data.att))
                /\ Out("HandleSingleDelete", NoResp, <<>>, 0,
                       <<ReqAtt("deleteFile", <<k>>, data.att)>>, <<answer>>)
           ELSE /\ UNCHANGED inflight
                /\ Out("HandleSingleDelete", NoResp, <<>>, 0, <<>>, <<answer>>)
        /\ UNCHANGED <<mounted, dragVars, payloadVars, dashVars, editorVars, shellVars, listVars, detailVars, backendVars>>

\* handleBatchDelete up to its first await; the button exists while something
\* is selected.
HandleBatchDelete ==
    \E answer \in BOOLEAN :
        /\ DetailShown
        /\ selectedAttachments # {}
        /\ IF Confirm(answer)
           THEN /\ CanSend(1)
                /\ inflight' = Append(inflight,
                       ReqAtt("deleteBatch", SeqOf(selectedAttachments), data.att))
                /\ Out("HandleBatchDelete", NoResp, <<>>, 0,
                       <<ReqAtt("deleteBatch", SeqOf(selectedAttachments), data.att)>>,
                       <<answer>>)
           ELSE /\ UNCHANGED inflight
                /\ Out("HandleBatchDelete", NoResp, <<>>, 0, <<>>, <<answer>>)
        /\ UNCHANGED <<mounted, dragVars, payloadVars, dashVars, editorVars, shellVars, listVars, detailVars, backendVars>>

\* handleSingleDelete and handleBatchDelete between their awaits: the files
\* are deleted, data is set to the captured list without them, and the case
\* is sent to be updated with that list.
FileDeleteResponse ==
    \E i \in DOMAIN inflight, r \in Answers :
        /\ mounted = "detail"
        /\ inflight[i].kind \in {"deleteFile", "deleteBatch"}
        /\ LET q == inflight[i]
               ic == Interceptor(r, hash, lsToken, lsUser)
               name == IF q.kind = "deleteFile" THEN "SingleDeleteResponse"
                       ELSE "BatchDeleteResponse"
               remaining == Without(q.cap, Range(q.keys))
               update == ReqAtt(IF q.kind = "deleteFile" THEN "updateAfterSingle"
                                ELSE "updateAfterBatch", remaining, <<>>)
           IN  /\ lsToken' = ic.tok
               /\ lsUser' = ic.usr
               /\ hash' = Routed(ic.hash, isLoading, user)
               /\ FilesDeleted(r, Range(q.keys))
               /\ IF ~IsError(r)
                  THEN /\ data' = [data EXCEPT !.att = remaining]
                       /\ inflight' = Append(Remove(inflight, i), update)
                       /\ Out(name, Answered(q, r, hash), <<>>, 0, <<update>>, <<>>)
                  ELSE /\ inflight' = Remove(inflight, i)
                       /\ Out(name, Answered(q, r, hash),
                              ic.toasts \o <<Err(IF q.kind = "deleteFile" THEN "deleteFailed"
                                                 ELSE "batchDeleteFailed")>>,
                              ic.href, <<>>, <<>>)
                       /\ UNCHANGED data
        /\ UNCHANGED <<mounted, dragVars, payloadVars, dashVars, editorVars, user, isLoading, authPc, loginLoading, listVars, detailPc,
                       dLoading, selectedAttachments, dbRegs, dbMeas, allocated>>

\* handleSingleDelete and handleBatchDelete after their second await.
UpdateAfterDeleteResponse ==
    \E i \in DOMAIN inflight, r \in Answers :
        /\ mounted = "detail"
        /\ inflight[i].kind \in {"updateAfterSingle", "updateAfterBatch"}
        /\ LET q == inflight[i]
               ic == Interceptor(r, hash, lsToken, lsUser)
               single == q.kind = "updateAfterSingle"
           IN  /\ lsToken' = ic.tok
               /\ lsUser' = ic.usr
               /\ hash' = Routed(ic.hash, isLoading, user)
               /\ CaseStored(r, q.keys)
               /\ selectedAttachments' = IF ~IsError(r) /\ ~single THEN {}
                                         ELSE selectedAttachments
               /\ Out(IF single THEN "SingleUpdateResponse" ELSE "BatchUpdateResponse",
                      Answered(q, r, hash),
                      IF ~IsError(r)
                      THEN <<Ok(IF single THEN "deleted" ELSE "batchDeleted")>>
                      ELSE ic.toasts \o <<Err(IF single THEN "deleteFailed"
                                              ELSE "batchDeleteFailed")>>,
                      ic.href, <<>>, <<>>)
        /\ inflight' = Remove(inflight, i)
        /\ UNCHANGED <<mounted, dragVars, payloadVars, dashVars, editorVars, user, isLoading, authPc, loginLoading, listVars, detailPc,
                       data, dLoading, dbRegs, dbMeas, allocated, deletedFiles>>

DetailConstructed ==
    /\ detailPc = "mount"
    /\ data = NoData
    /\ dLoading = TRUE
    /\ selectedAttachments = {}

\* The user reloads the detail page.
DetailReload ==
    /\ mounted = "detail"
    /\ hash = "detail"
    /\ detailPc = "ready"
    /\ detailPc' = "mount"
    /\ data' = NoData
    /\ dLoading' = TRUE
    /\ selectedAttachments' = {}
    /\ inflight' = <<>>
    /\ Out("DetailReload", NoResp, <<>>, 0, <<>>, <<>>)
    /\ UNCHANGED <<mounted, dragVars, payloadVars, dashVars, editorVars, shellVars, listVars, backendVars>>

\* The case as the backend holds it when the page is opened.
Backend(att, regs) ==
    /\ dbAtt = att
    /\ dbRegs = regs
    /\ dbMeas = <<"x">>
    /\ allocated = Range(att)
    /\ deletedFiles = {}

BackendInit == Backend(StoredKeys, <<[lawName |-> "x", content |-> "x"]>>)

BackendIdle == Backend(<<>>, <<>>)

DetailNext ==
    \/ DetailMount
    \/ FetchCaseResponse
    \/ ToggleAttachmentSelection
    \/ HandleCaseDelete
    \/ CaseDeleteResponse
    \/ HandleSingleDelete
    \/ HandleBatchDelete
    \/ FileDeleteResponse
    \/ UpdateAfterDeleteResponse
    \/ DetailReload

\* --------------------------------------------------------------- CaseModal
Hosts == {"list", "detail"}
EditorUnits == {"form", "files", "drag"}
\* The units in which the user works on the attachments.
FileUnits == {"files", "drag"}
\* An entry of the attachment list that is undefined.
Undefined == "undefined"
FieldValues == {"", "x"}
\* onDrop's size limit.
MaxFileSize == 50 * 1024 * 1024
\* File sizes at and above the limit.
Sizes == {MaxFileSize, MaxFileSize + 1}
Drops == UNION {[1..n -> Sizes] : n \in 1..MaxDrop}

EmptyReg == [lawName |-> "", content |-> ""]
EmptyMeas == ""

PageOf(h) == IF h = "list" THEN "cases" ELSE "detail"

\* The host page is rendered and the editor is closed.
HostShown ==
    /\ mounted \in EditorUnits
    /\ hash = PageOf(host)
    /\ ~isOpen
    /\ host = "detail" => ~dLoading /\ data.loaded

\* The editor is rendered: CaseDetail renders it only past its early returns,
\* and the attachment rows read file.ossKey, which throws on an undefined
\* entry.
EditorShown ==
    /\ mounted \in EditorUnits
    /\ hash = PageOf(host)
    /\ isOpen
    /\ host = "detail" => ~dLoading /\ data.loaded
    /\ Undefined \notin Range(attachments)

\* The editor is rendered and the user works on its fields.
FormShown == EditorShown /\ mounted = "form"

\* The editor is rendered and the user works on its attachments.
FilesShown == EditorShown /\ mounted \in FileUnits

\* The isSubmitting prop each host passes.
IsSubmittingProp == IF host = "list" THEN isSubmitting ELSE FALSE

FormIs(t, cr, regs, meas, errs, sub, att) ==
    /\ title' = t
    /\ caseRecord' = cr
    /\ legalProvisions' = regs
    /\ preventionMeasures' = meas
    /\ errors' = errs
    /\ isSubmitted' = sub
    /\ attachments' = att

\* The effect on [isOpen, initialData]: reset(...) from initialData or to the
\* empty form.
FormReset(init) ==
    IF init.loaded
    THEN FormIs("x", "x",
                IF Len(init.regs) > 0 THEN init.regs ELSE <<EmptyReg>>,
                IF Len(init.meas) > 0 THEN init.meas ELSE <<EmptyMeas>>,
                {}, FALSE, init.att)
    ELSE FormIs("", "", <<EmptyReg>>, <<EmptyMeas>>, {}, FALSE, <<>>)

\* The fields whose registered rule fails: title and caseRecord are required,
\* and so is every field of every row.
Invalid_TitleOptional(t, cr, regs, meas) ==
    (IF cr = "" THEN {"caseRecord"} ELSE {})
        \cup (IF \E i \in DOMAIN regs : regs[i].lawName = "" \/ regs[i].content = ""
              THEN {"legalProvisions"} ELSE {})
        \cup (IF \E i \in DOMAIN meas : meas[i] = ""
              THEN {"preventionMeasures.value"} ELSE {})
Invalid_RowsOptional(t, cr, regs, meas) ==
    (IF t = "" THEN {"title"} ELSE {}) \cup (IF cr = "" THEN {"caseRecord"} ELSE {})

Invalid(t, cr, regs, meas) ==
    (IF t = "" THEN {"title"} ELSE {})
        \cup (IF cr = "" THEN {"caseRecord"} ELSE {})
        \cup (IF \E i \in DOMAIN regs : regs[i].lawName = ""
              THEN {"legalProvisions.lawName"} ELSE {})
        \cup (IF \E i \in DOMAIN regs : regs[i].content = ""
              THEN {"legalProvisions.content"} ELSE {})
        \cup (IF \E i \in DOMAIN meas : meas[i] = ""
              THEN {"preventionMeasures.value"} ELSE {})

\* The errors the form displays.
Displayed == {"title", "caseRecord"}

\* After a submit, a change of a field validates it again.
Revalidated(name, v) ==
    IF isSubmitted
    THEN (errors \ {name}) \cup (IF v = "" THEN {name} ELSE {})
    ELSE errors

\* CaseList: the buttons that open the editor for a new case.
OpenCreate ==
    /\ HostShown
    /\ mounted = "form"
    /\ host = "list"
    /\ editingCase' = NoData
    /\ isOpen' = TRUE
    /\ FormReset(NoData)
    /\ Out("OpenCreate", NoResp, <<>>, 0, <<>>, <<>>)
    /\ UNCHANGED <<mounted, dragVars, payloadVars, dashVars, shellVars, inflight, listVars, detailVars, backendVars, host,
                   isSubmitting, uploading>>

\* handleEditClick up to its await, from a row's edit button.
HandleEditClick ==
    \E c \in CaseIds :
        /\ HostShown
        /\ host = "list"
        /\ ~loading
        /\ HasRows(cases, totalPages)
        /\ CanSend(1)
        /\ inflight' = Append(inflight, Req("editFetch", NoP, <<c>>))
        /\ Out("HandleEditClick", NoResp, <<Plain("loadingDetail")>>, 0,
               <<Req("editFetch", NoP, <<c>>)>>, <<>>)
        /\ UNCHANGED <<mounted, dragVars, payloadVars, dashVars, shellVars, listVars, detailVars, backendVars, editorVars>>

\* handleEditClick after its await: the editor opens on the fetched case.
EditFetchResponse ==
    \E i \in DOMAIN inflight, r \in Answers :
        /\ mounted \in EditorUnits
        /\ inflight[i].kind = "editFetch"
        /\ LET q == inflight[i]
               ic == Interceptor(r, hash, lsToken, lsUser)
           IN  /\ lsToken' = ic.tok
               /\ lsUser' = ic.usr
               /\ hash' = Routed(ic.hash, isLoading, user)
               /\ IF ~IsError(r) /\ r.code = 200
                  THEN /\ editingCase' = StoredCase
                       /\ isOpen' = TRUE
                       /\ FormReset(StoredCase)
                  ELSE UNCHANGED <<editingCase, isOpen, formVars>>
               /\ Out("EditFetchResponse", Answered(q, r, hash),
                      IF ~IsError(r)
                      THEN IF r.code = 200 THEN <<>> ELSE <<Err("loadDetailFailed")>>
                      ELSE ic.toasts \o <<Err("networkFailed")>>,
                      ic.href, <<>>, <<>>)
        /\ inflight' = Remove(inflight, i)
        /\ UNCHANGED <<mounted, dragVars, payloadVars, dashVars, user, isLoading, authPc, loginLoading, listVars, detailVars,
                       backendVars, host, isSubmitting, uploading>>

\* CaseDetail: the edit button.
OpenEdit ==
    /\ HostShown
    /\ host = "detail"
    /\ isOpen' = TRUE
    /\ FormReset(data)
    /\ Out("OpenEdit", NoResp, <<>>, 0, <<>>, <<>>)
    /\ UNCHANGED <<mounted, dragVars, payloadVars, dashVars, shellVars, inflight, listVars, detailVars, backendVars, host,
                   editingCase, isSubmitting, uploading>>

\* onClose: the backdrop, the X and the cancel button.
CloseModal ==
    /\ EditorShown
    /\ isOpen' = FALSE
    /\ Out("CloseModal", NoResp, <<>>, 0, <<>>, <<>>)
    /\ UNCHANGED <<mounted, dragVars, payloadVars, dashVars, shellVars, inflight, listVars, detailVars, backendVars, host,
                   editingCase, isSubmitting, formVars, uploading>>

EditFrame ==
    /\ Out("Edit", NoResp, <<>>, 0, <<>>, <<>>)
    /\ UNCHANGED <<mounted, dragVars, payloadVars, dashVars, shellVars, inflight, listVars, detailVars, backendVars, host,
                   isOpen, editingCase, isSubmitting, uploading>>

\* The user types in the title input.
SetTitle ==
    \E v \in FieldValues :
        /\ FormShown
        /\ FormIs(v, caseRecord, legalProvisions, preventionMeasures,
                  Revalidated("title", v), isSubmitted, attachments)
        /\ EditFrame

\* The user types in the case record input.
SetCaseRecord ==
    \E v \in FieldValues :
        /\ FormShown
        /\ FormIs(title, v, legalProvisions, preventionMeasures,
                  Revalidated("caseRecord", v), isSubmitted, attachments)
        /\ EditFrame

\* The user types in a field of a legal provision row.
SetProvision ==
    \E i \in DOMAIN legalProvisions, f \in {"lawName", "content"}, v \in FieldValues :
        /\ FormShown
        /\ FormIs(title, caseRecord, [legalProvisions EXCEPT ![i][f] = v],
                  preventionMeasures, errors, isSubmitted, attachments)
        /\ EditFrame

\* appendReg({ lawName: '', content: '' })
AppendReg ==
    /\ FormShown
    /\ Len(legalProvisions) < MaxRows
    /\ FormIs(title, caseRecord, Append(legalProvisions, EmptyReg), preventionMeasures,
              errors, isSubmitted, attachments)
    /\ EditFrame

\* removeReg(index)
RemoveReg ==
    \E i \in DOMAIN legalProvisions :
        /\ FormShown
        /\ FormIs(title, caseRecord, Remove(legalProvisions, i), preventionMeasures,
                  errors, isSubmitted, attachments)
        /\ EditFrame

\* The user types in a prevention measure row.
SetMeasure ==
    \E i \in DOMAIN preventionMeasures, v \in FieldValues :
        /\ FormShown
        /\ FormIs(title, caseRecord, legalProvisions, [preventionMeasures EXCEPT ![i] = v],
                  errors, isSubmitted, attachments)
        /\ EditFrame

\* appendMeas({ value: '' })
AppendMeas ==
    /\ FormShown
    /\ Len(preventionMeasures) < MaxRows
    /\ FormIs(title, caseRecord, legalProvisions, Append(preventionMeasures, EmptyMeas),
              errors, isSubmitted, attachments)
    /\ EditFrame

\* removeMeas(index)
RemoveMeas ==
    \E i \in DOMAIN preventionMeasures :
        /\ FormShown
        /\ FormIs(title, caseRecord, legalProvisions, Remove(preventionMeasures, i),
                  errors, isSubmitted, attachments)
        /\ EditFrame

\* handleSubmit(onFormSubmit), from the save button: the form is validated
\* and, when nothing is invalid, the host's onSubmit runs up to its await.
FormSubmit ==
    /\ EditorShown
    /\ ~(IsSubmittingProp \/ uploading)
    /\ LET bad == Invalid(title, caseRecord, legalProvisions, preventionMeasures)
           save == ReqSave(IF host = "list" /\ ~editingCase.loaded THEN "create"
                           ELSE "update",
                           attachments, legalProvisions,
                           SelectSeq(preventionMeasures, LAMBDA m : m # ""))
       IN  /\ FormIs(title, caseRecord, legalProvisions, preventionMeasures,
                     bad \cap Displayed, TRUE, attachments)
           /\ IF bad = {}
              THEN /\ CanSend(1)
                   /\ inflight' = Append(inflight, save)
                   /\ isSubmitting' = IF host = "list" THEN TRUE ELSE isSubmitting
                   /\ Out("FormSubmit", NoResp, <<>>, 0, <<save>>, <<>>)
              ELSE /\ UNCHANGED <<inflight, isSubmitting>>
                   /\ Out("FormSubmit", NoResp, <<>>, 0, <<>>, <<>>)
    /\ UNCHANGED <<mounted, dragVars, payloadVars, dashVars, shellVars, listVars, detailVars, backendVars, host, isOpen,
                   editingCase, uploading>>

\* What the backend does when it answers r to the save q: on code 200 an
\* update stores what it was sent.
CaseSaved(r, q) ==
    IF ~IsError(r) /\ r.code = 200 /\ q.kind = "update"
    THEN /\ dbAtt' = q.keys
         /\ dbRegs' = q.regs
         /\ dbMeas' = q.meas
    ELSE UNCHANGED <<dbAtt, dbRegs, dbMeas>>

\* The requests of a CaseModal that has been unmounted.
Unmounted(reqs) ==
    [i \in DOMAIN reqs |->
        IF reqs[i].kind \in {"uploadBatch", "removeAttachment"}
        THEN [reqs[i] EXCEPT !.orphan = TRUE] ELSE reqs[i]]

SaveSucceeded_Always(r) == TRUE

\* handleCreateOrUpdate and handleUpdate: the await returns, rather than
\* throws, for every answer axios does not reject.
SaveSucceeded(r) == ~IsError(r)

\* handleCreateOrUpdate (list) and handleUpdate (detail) after their await.
SaveResponse ==
    \E i \in DOMAIN inflight, r \in Answers :
        /\ mounted \in EditorUnits
        /\ inflight[i].kind \in {"create", "update"}
        /\ LET q == inflight[i]
               ic == Interceptor(r, hash, lsToken, lsUser)
               fetch == Req("list", FetchParams(page, keyword, selectedTag, sortDir), <<>>)
               tags == Req("tags", NoP, <<>>)
               get == Req("getById", NoP, <<>>)
               done == IF q.kind = "update" THEN Ok("updated") ELSE Ok("created")
           IN  /\ lsToken' = ic.tok
               /\ lsUser' = ic.usr
               /\ hash' = Routed(ic.hash, isLoading, user)
               /\ CaseSaved(r, q)
               /\ IF host = "list"
                  THEN /\ isSubmitting' = FALSE
                       /\ IF SaveSucceeded(r)
                          THEN /\ Len(inflight) + 1 <= MaxInflight
                               /\ isOpen' = FALSE
                               /\ editingCase' = NoData
                               /\ loading' = TRUE
                               /\ inflight' = Remove(inflight, i) \o <<fetch, tags>>
                               /\ Out("SaveResponse", Answered(q, r, hash), <<done>>, 0,
                                      <<fetch, tags>>, <<>>)
                          ELSE /\ inflight' = Remove(inflight, i)
                               /\ Out("SaveResponse", Answered(q, r, hash),
                                      ic.toasts \o <<Err("saveFailed")>>, ic.href, <<>>, <<>>)
                               /\ UNCHANGED <<isOpen, editingCase, loading>>
                       /\ UNCHANGED <<formVars, uploading, dLoading, draggedItemIndex>>
                  ELSE /\ IF SaveSucceeded(r)
                          THEN /\ isOpen' = FALSE
                               /\ dLoading' = TRUE
                               /\ FormReset(NoData)
                               /\ uploading' = FALSE
                               /\ draggedItemIndex' = 0
                               /\ inflight' = Unmounted(Remove(inflight, i)) \o <<get>>
                               /\ Out("SaveResponse", Answered(q, r, hash), <<Ok("updated")>>,
                                      0, <<get>>, <<>>)
                          ELSE /\ inflight' = Remove(inflight, i)
                               /\ Out("SaveResponse", Answered(q, r, hash),
                                      ic.toasts \o <<Err("updateFailed")>>, ic.href, <<>>,
                                      <<>>)
                               /\ UNCHANGED <<isOpen, dLoading, formVars, uploading,
                                              draggedItemIndex>>
                       /\ UNCHANGED <<isSubmitting, editingCase, loading>>
        /\ UNCHANGED <<mounted, dragTarget, payloadVars, dashVars, user, isLoading, authPc, loginLoading, listPc, url, page,
                       totalPages, keyword, selectedTag, sortDir, cases, availableTags,
                       detailPc, data, selectedAttachments, host, allocated, deletedFiles>>

\* file.size <= 50 * 1024 * 1024
IsSizeValid_Off(size) == TRUE
IsSizeValid(size) == size <= MaxFileSize

\* onDrop up to its await.
OnDrop ==
    \E files \in Drops :
        /\ FilesShown
        /\ LET validFiles == SelectSeq(files, IsSizeValid)
               rejected == SelectSeq(files, LAMBDA f : ~IsSizeValid(f))
               tooLarge == [i \in DOMAIN rejected |-> Err("tooLarge")]
               upload == ReqFiles("uploadBatch", validFiles)
           IN  /\ step' = "OnDrop"
               /\ lastResp' = NoResp
               /\ hrefWrites' = 0
               /\ confirmed' = <<>>
               /\ dropped' = files
               /\ IF Len(validFiles) = 0
                  THEN /\ toasts' = tooLarge
                       /\ sent' = <<>>
                       /\ UNCHANGED <<uploading, inflight>>
                  ELSE /\ CanSend(1)
                       /\ uploading' = TRUE
                       /\ toasts' = tooLarge \o <<Plain("uploading")>>
                       /\ sent' = <<upload>>
                       /\ inflight' = Append(inflight, upload)
        /\ UNCHANGED <<mounted, dragVars, payloadVars, dashVars, shellVars, listVars, detailVars, backendVars, host, isOpen,
                       editingCase, isSubmitting, formVars>>

\* The storage keys the backend gives to n uploaded files.
NewKeys(n) == SubSeq(SelectSeq(AllKeys, LAMBDA k : k \notin allocated), 1, n)

Appended_Replacing(cur, new) == new

\* [...currentAttachments, ...newAttachments]
Appended(cur, new) == cur \o new

\* onDrop after its await.
UploadResponse ==
    \E i \in DOMAIN inflight, r \in Answers :
        /\ mounted \in FileUnits
        /\ inflight[i].kind = "uploadBatch"
        /\ LET q == inflight[i]
               ic == Interceptor(r, hash, lsToken, lsUser)
               n == Len(q.sizes)
               stored == ~IsError(r) /\ r.code = 200
           IN  /\ lsToken' = ic.tok
               /\ lsUser' = ic.usr
               /\ hash' = Routed(ic.hash, isLoading, user)
               /\ IF stored
                  THEN /\ Cardinality(Range(AllKeys) \ allocated) >= n
                       /\ allocated' = allocated \cup Range(NewKeys(n))
                  ELSE UNCHANGED allocated
               /\ IF q.orphan
                  THEN UNCHANGED <<formVars, uploading>>
                  ELSE /\ FormIs(title, caseRecord, legalProvisions, preventionMeasures,
                                 errors, isSubmitted,
                                 IF stored THEN Appended(attachments, NewKeys(n))
                                 ELSE attachments)
                       /\ uploading' = FALSE
               /\ Out("UploadResponse", Answered(q, r, hash),
                      IF ~IsError(r)
                      THEN IF r.code = 200 THEN <<Ok("uploaded")>> ELSE <<Err("uploadFailed")>>
                      ELSE ic.toasts \o <<Err("uploadError")>>,
                      ic.href, <<>>, <<>>)
        /\ inflight' = Remove(inflight, i)
        /\ UNCHANGED <<mounted, dragVars, payloadVars, dashVars, user, isLoading, authPc, loginLoading, listVars, detailVars,
                       host, isOpen, editingCase, isSubmitting, dbAtt, dbRegs, dbMeas,
                       deletedFiles>>

\* handleRemoveAttachment up to its await: the handler keeps the attachments
\* of the render it was made in.
HandleRemoveAttachment ==
    \E index \in DOMAIN attachments, answer \in BOOLEAN :
        /\ FilesShown
        /\ LET fileToRemove == attachments[index]
               del == ReqAtt("removeAttachment", <<fileToRemove>>, attachments)
           IN  IF Confirm(answer)
               THEN /\ CanSend(1)
                    /\ inflight' = Append(inflight, del)
                    /\ Out("HandleRemoveAttachment", NoResp, <<>>, 0, <<del>>, <<answer>>)
               ELSE /\ UNCHANGED inflight
                    /\ Out("HandleRemoveAttachment", NoResp, <<>>, 0, <<>>, <<answer>>)
        /\ UNCHANGED <<mounted, dragVars, payloadVars, dashVars, shellVars, listVars, detailVars, backendVars, editorVars>>

\* handleRemoveAttachment after its await.
RemoveAttachmentResponse ==
    \E i \in DOMAIN inflight, r \in Answers :
        /\ mounted \in FileUnits
        /\ inflight[i].kind = "removeAttachment"
        /\ LET q == inflight[i]
               ic == Interceptor(r, hash, lsToken, lsUser)
           IN  /\ lsToken' = ic.tok
               /\ lsUser' = ic.usr
               /\ hash' = Routed(ic.hash, isLoading, user)
               /\ FilesDeleted(r, Range(q.keys))
               /\ IF ~IsError(r) /\ ~q.orphan
                  THEN FormIs(title, caseRecord, legalProvisions, preventionMeasures, errors,
                              isSubmitted, Without(q.cap, Range(q.keys)))
                  ELSE UNCHANGED formVars
               /\ Out("RemoveAttachmentResponse", Answered(q, r, hash),
                      IF ~IsError(r) THEN <<Ok("attachmentDeleted")>>
                      ELSE ic.toasts \o <<Err("removeFailed")>>,
                      ic.href, <<>>, <<>>)
        /\ inflight' = Remove(inflight, i)
        /\ UNCHANGED <<mounted, dragVars, payloadVars, dashVars, user, isLoading, authPc, loginLoading, listVars, detailVars,
                       host, isOpen, editingCase, isSubmitting, uploading, dbRegs, dbMeas,
                       allocated>>

\* The editor as constructed by host h: closed, the form at its defaults.
EditorConstructed(h) ==
    /\ host = h
    /\ isOpen = FALSE
    /\ editingCase = NoData
    /\ isSubmitting = FALSE
    /\ title = ""
    /\ caseRecord = ""
    /\ legalProvisions = <<EmptyReg>>
    /\ preventionMeasures = <<EmptyMeas>>
    /\ errors = {}
    /\ isSubmitted = FALSE
    /\ attachments = <<>>
    /\ uploading = FALSE
    /\ draggedItemIndex = 0
    /\ dragTarget = 0

\* CaseList with its first page shown.
ListLoaded ==
    /\ listPc = "ready"
    /\ url = UrlOf("", "")
    /\ page = 1
    /\ totalPages = 1
    /\ loading = FALSE
    /\ keyword = ""
    /\ selectedTag = ""
    /\ sortDir = "desc"
    /\ cases = 1
    /\ availableTags = {}

\* CaseDetail with the case shown.
DetailLoaded ==
    /\ detailPc = "ready"
    /\ data = StoredCase
    /\ dLoading = FALSE
    /\ selectedAttachments = {}

\* Under the editor, the host's refetches are answered with the list and the
\* tags the page already shows.
HostListResponse == mounted \in EditorUnits /\ ListAnswered({totalPages})
HostTagsResponse == mounted \in EditorUnits /\ TagsAnswered({availableTags})

FormNext ==
    \/ OpenCreate
    \/ HandleEditClick
    \/ EditFetchResponse
    \/ OpenEdit
    \/ CloseModal
    \/ SetTitle
    \/ SetCaseRecord
    \/ SetProvision
    \/ AppendReg
    \/ RemoveReg
    \/ SetMeasure
    \/ AppendMeas
    \/ RemoveMeas
    \/ FormSubmit
    \/ SaveResponse
    \/ HostListResponse
    \/ HostTagsResponse
    \/ FetchCaseResponse

FilesNext ==
    \/ HandleEditClick
    \/ EditFetchResponse
    \/ CloseModal
    \/ OnDrop
    \/ UploadResponse
    \/ HandleRemoveAttachment
    \/ RemoveAttachmentResponse
    \/ FormSubmit
    \/ SaveResponse
    \/ HostListResponse
    \/ HostTagsResponse

\* The attachment rows take drag events.
DragShown == FilesShown /\ mounted = "drag"

\* newAttachments.splice(index, 0, item), index counted from 1.
InsertAt(s, index, item) ==
    LET at == IF index - 1 <= Len(s) THEN index - 1 ELSE Len(s)
    IN  SubSeq(s, 1, at) \o <<item>> \o SubSeq(s, at + 1, Len(s))

\* newAttachments[draggedItemIndex]; splice(draggedItemIndex, 1);
\* splice(index, 0, draggedItem): an index past the end reads undefined and
\* removes nothing.
Moved(att, from, index) ==
    IF from \in DOMAIN att
    THEN InsertAt(Remove(att, from), index, att[from])
    ELSE InsertAt(att, index, Undefined)

DragFrame ==
    /\ UNCHANGED <<mounted, shellVars, inflight, listVars, detailVars, backendVars,
                   dashVars, payloadVars, host, isOpen, editingCase, isSubmitting,
                   title, caseRecord, legalProvisions, preventionMeasures, errors,
                   isSubmitted, uploading>>

\* handleDragStart, from the row at index.
HandleDragStart ==
    \E index \in DOMAIN attachments :
        /\ DragShown
        /\ draggedItemIndex' = index
        /\ dragTarget' = index
        /\ Out("HandleDragStart", NoResp, <<>>, 0, <<>>, <<>>)
        /\ UNCHANGED attachments
        /\ DragFrame

\* handleDragOver, from the row at index.
HandleDragOver ==
    \E index \in DOMAIN attachments :
        /\ DragShown
        /\ dragTarget' = index
        /\ IF draggedItemIndex = 0 \/ draggedItemIndex = index
           THEN UNCHANGED <<attachments, draggedItemIndex>>
           ELSE /\ attachments' = Moved(attachments, draggedItemIndex, index)
                /\ draggedItemIndex' = index
        /\ Out("HandleDragOver", NoResp, <<>>, 0, <<>>, <<>>)
        /\ DragFrame

\* handleDragEnd.
HandleDragEnd ==
    /\ DragShown
    /\ draggedItemIndex # 0
    /\ draggedItemIndex' = 0
    /\ dragTarget' = 0
    /\ Out("HandleDragEnd", NoResp, <<>>, 0, <<>>, <<>>)
    /\ UNCHANGED attachments
    /\ DragFrame

\* Uploads, removals and drags in the editor opened on a case.
AttachNext ==
    \/ HandleEditClick
    \/ EditFetchResponse
    \/ OnDrop
    \/ UploadResponse
    \/ HandleRemoveAttachment
    \/ RemoveAttachmentResponse
    \/ HandleDragStart
    \/ HandleDragOver
    \/ HandleDragEnd

\* Removals, drags and the save.
DragNext ==
    \/ HandleEditClick
    \/ EditFetchResponse
    \/ HandleRemoveAttachment
    \/ RemoveAttachmentResponse
    \/ HandleDragStart
    \/ HandleDragOver
    \/ HandleDragEnd
    \/ FormSubmit
    \/ SaveResponse
    \/ HostListResponse
    \/ HostTagsResponse

\* --------------------------------------------------------------- Dashboard
\* The tag statistics the backend can return: lists of {tag, count}.
TagStats == [tag : {"t", "u"}, count : {0, 3, 12}]
TagLists == UNION {[1..n -> TagStats] : n \in 0..MaxTags}

\* { tag: (none yet), count: 0 }, the top tag of the initial state and of an
\* empty tag list.
Placeholder == [tag |-> "placeholder", count |-> 0]

NoCasesRes == [code |-> 0, totalElements |-> 0, content |-> 0]
NoTagsRes == [code |-> 0, data |-> <<>>]

\* tags.reduce((prev, current) => (prev.count > current.count) ? prev : current)
\* from entry i on, with prev the value carried so far.
RECURSIVE Reduce(_, _, _)
Reduce(prev, tags, i) ==
    IF i > Len(tags) THEN prev
    ELSE Reduce(IF prev.count > tags[i].count THEN prev ELSE tags[i], tags, i + 1)

TopTag_First(tags) == IF Len(tags) > 0 THEN tags[1] ELSE Placeholder

\* The top tag the dashboard derives from a tag list.
TopTag(tags) == IF Len(tags) > 0 THEN Reduce(tags[1], tags, 2) ELSE Placeholder

DashShown == mounted = "dash" /\ hash = "home"

\* The effect of the first render: fetchDashboardData up to its first await.
DashMount ==
    /\ DashShown
    /\ dashPc = "mount"
    /\ CanSend(1)
    /\ LET q == Req("dashList", FetchParams(1, "", "", "desc"), <<>>)
       IN  /\ inflight' = Append(inflight, q)
           /\ Out("DashMount", NoResp, <<>>, 0, <<q>>, <<>>)
    /\ dashPc' = "cases"
    /\ UNCHANGED <<mounted, dragVars, payloadVars, shellVars, listVars, detailVars, editorVars, backendVars,
                   casesRes, tagsRes, statsData, dashLoading>>

\* fetchDashboardData after its first await: the tag list is asked for when
\* the list call returned; when it threw, catch and finally run.
DashCasesResponse ==
    \E i \in DOMAIN inflight, r \in Answers, n \in 0..1 :
        /\ mounted = "dash"
        /\ inflight[i].kind = "dashList"
        /\ LET q == inflight[i]
               ic == Interceptor(r, hash, lsToken, lsUser)
               next == Req("dashTags", NoP, <<>>)
           IN  /\ lsToken' = ic.tok
               /\ lsUser' = ic.usr
               /\ hash' = Routed(ic.hash, isLoading, user)
               /\ IF IsError(r)
                  THEN /\ inflight' = Remove(inflight, i)
                       /\ dashPc' = "done"
                       /\ dashLoading' = FALSE
                       /\ UNCHANGED casesRes
                       /\ Out("DashCasesResponse", Answered(q, r, hash), ic.toasts,
                              ic.href, <<>>, <<>>)
                  ELSE /\ inflight' = Append(Remove(inflight, i), next)
                       /\ dashPc' = "tags"
                       /\ casesRes' = IF r.code = 200
                                      THEN [code |-> 200, totalElements |-> n, content |-> n]
                                      ELSE [NoCasesRes EXCEPT !.code = r.code]
                       /\ UNCHANGED dashLoading
                       /\ Out("DashCasesResponse", Answered(q, r, hash), <<>>, 0,
                              <<next>>, <<>>)
        /\ UNCHANGED <<mounted, dragVars, payloadVars, user, isLoading, authPc, loginLoading, listVars, detailVars,
                       editorVars, backendVars, tagsRes, statsData>>

\* fetchDashboardData after its second await: statsData is set when both
\* envelopes carry code 200; finally ends loading.
DashTagsResponse ==
    \E i \in DOMAIN inflight, r \in Answers, tags \in TagLists :
        /\ mounted = "dash"
        /\ inflight[i].kind = "dashTags"
        /\ (IsError(r) \/ r.code # 200) => tags = <<>>
        /\ LET q == inflight[i]
               ic == Interceptor(r, hash, lsToken, lsUser)
           IN  /\ lsToken' = ic.tok
               /\ lsUser' = ic.usr
               /\ hash' = Routed(ic.hash, isLoading, user)
               /\ tagsRes' = IF IsError(r) THEN tagsRes ELSE [code |-> r.code, data |-> tags]
               /\ statsData' =
                     IF ~IsError(r) /\ casesRes.code = 200 /\ r.code = 200
                     THEN [totalCases |-> casesRes.totalElements,
                           topTag |-> TopTag(tags),
                           recentCases |-> casesRes.content]
                     ELSE statsData
               /\ Out("DashTagsResponse", Answered(q, r, hash), ic.toasts, ic.href,
                      <<>>, <<>>)
        /\ inflight' = Remove(inflight, i)
        /\ dashPc' = "done"
        /\ dashLoading' = FALSE
        /\ UNCHANGED <<mounted, dragVars, payloadVars, user, isLoading, authPc, loginLoading, listVars, detailVars,
                       editorVars, backendVars, casesRes>>

\* useState(...) of a Dashboard that is being constructed.
DashConstructed ==
    /\ dashPc = "mount"
    /\ casesRes = NoCasesRes
    /\ tagsRes = NoTagsRes
    /\ statsData = [totalCases |-> 0, topTag |-> Placeholder, recentCases |-> 0]
    /\ dashLoading = TRUE

\* The user reloads the dashboard once it has loaded.
DashReload ==
    /\ DashShown
    /\ dashPc = "done"
    /\ dashPc' = "mount"
    /\ casesRes' = NoCasesRes
    /\ tagsRes' = NoTagsRes
    /\ statsData' = [totalCases |-> 0, topTag |-> Placeholder, recentCases |-> 0]
    /\ dashLoading' = TRUE
    /\ inflight' = <<>>
    /\ Out("DashReload", NoResp, <<>>, 0, <<>>, <<>>)
    /\ UNCHANGED <<mounted, dragVars, payloadVars, shellVars, listVars, detailVars, editorVars, backendVars>>

DashNext ==
    \/ DashMount
    \/ DashCasesResponse
    \/ DashTagsResponse
    \/ DashReload

\* ------------------------------------------------------------ payload tags
\* The characters of the tags input: the ASCII comma, the full-width comma
\* (U+FF0C), a blank and two letters.
FullWidthComma == "fw,"
TagChars == {",", FullWidthComma, " ", "a", "b"}
TagTexts == UNION {[1..n -> TagChars] : n \in 0..MaxTagChars}

\* String.trim(): the blanks at both ends are dropped.
RECURSIVE TrimStart(_)
TrimStart(t) == IF t # <<>> /\ Head(t) = " " THEN TrimStart(Tail(t)) ELSE t
RECURSIVE TrimEnd(_)
TrimEnd(t) ==
    IF t # <<>> /\ t[Len(t)] = " " THEN TrimEnd(SubSeq(t, 1, Len(t) - 1)) ELSE t
Trim(t) == TrimEnd(TrimStart(t))

\* String.split(/[,(U+FF0C)]/): the pieces between the commas, the empty
\* ones included; cur is the piece being read.
RECURSIVE SplitFrom(_, _)
SplitFrom(t, cur) ==
    IF t = <<>> THEN <<cur>>
    ELSE IF Head(t) \in {",", FullWidthComma}
         THEN <<cur>> \o SplitFrom(Tail(t), <<>>)
         ELSE SplitFrom(Tail(t), Append(cur, Head(t)))
Split(t) == SplitFrom(t, <<>>)

\* The pieces of a list one after the other.
RECURSIVE Concat(_)
Concat(ts) == IF ts = <<>> THEN <<>> ELSE Head(ts) \o Concat(Tail(ts))

RECURSIVE Distinct(_)
Distinct(ts) ==
    IF ts = <<>> THEN <<>>
    ELSE LET front == Distinct(SubSeq(ts, 1, Len(ts) - 1))
             last == ts[Len(ts)]
         IN  IF \E i \in DOMAIN front : front[i] = last THEN front ELSE Append(front, last)

PayloadTags_Deduplicated(t) ==
    Distinct(SelectSeq([i \in DOMAIN Split(t) |-> Trim(Split(t)[i])], LAMBDA x : x # <<>>))

\* data.tags.split(/[,(U+FF0C)]/).map(t => t.trim()).filter(Boolean)
PayloadTags(t) ==
    SelectSeq([i \in DOMAIN Split(t) |-> Trim(Split(t)[i])], LAMBDA x : x # <<>>)

\* The user types in the tags input: a character more, or the last one
\* deleted.
SetTags ==
    \E t \in TagTexts :
        /\ mounted = "payload"
        /\ \/ \E c \in TagChars : t = Append(tagsField, c)
           \/ tagsField # <<>> /\ t = SubSeq(tagsField, 1, Len(tagsField) - 1)
        /\ tagsField' = t
        /\ Out("SetTags", NoResp, <<>>, 0, <<>>, <<>>)
        /\ UNCHANGED <<mounted, dragVars, shellVars, inflight, listVars, detailVars, editorVars,
                       backendVars, dashVars, payloadTags>>

\* handleCreateOrUpdate and handleUpdate: the tags of the payload they build.
BuildPayload ==
    /\ mounted = "payload"
    /\ payloadTags' = PayloadTags(tagsField)
    /\ Out("BuildPayload", NoResp, <<>>, 0, <<>>, <<>>)
    /\ UNCHANGED <<mounted, dragVars, shellVars, inflight, listVars, detailVars, editorVars,
                   backendVars, dashVars, tagsField>>

\* The form's tags field at its default and no payload built.
PayloadConstructed ==
    /\ tagsField = <<>>
    /\ payloadTags = <<>>

PayloadNext ==
    \/ SetTags
    \/ BuildPayload

ShellInit ==
    /\ hash \in {"login", "home"}
    /\ lsToken \in {NoToken, "tok"}
    /\ lsUser \in StoredUsers
    /\ user = NoUser
    /\ isLoading = TRUE
    /\ authPc = "init"
    /\ loginLoading = FALSE

ShellNext ==
    \/ InitAuth
    \/ WhoamiResponse
    \/ LoginSubmit
    \/ LoginResponse
    \/ Logout
    \/ DataCall
    \/ DataResponse
    \/ NavigateHash
    \/ Reload

ShellIdle(h) ==
    /\ hash = h
    /\ lsToken = "tok"
    /\ lsUser = "u1"
    /\ user = "u1"
    /\ isLoading = FALSE
    /\ authPc = "done"
    /\ loginLoading = FALSE

NetInit ==
    /\ inflight = <<>>
    /\ step = "none"
    /\ lastResp = NoResp
    /\ toasts = <<>>
    /\ hrefWrites = 0
    /\ sent = <<>>
    /\ confirmed = <<>>
    /\ dropped = <<>>

vars == <<mounted, shellVars, inflight, outVars, pageVars>>

\* The application shell: session store, login, route guard.
InitShell ==
    PayloadConstructed /\ DashConstructed /\ mounted = "app" /\ ShellInit /\ ListIdle /\ DetailConstructed /\ EditorConstructed("list")
        /\ BackendIdle /\ NetInit
SpecShell == InitShell /\ [][ShellNext]_vars

\* The case list page, entered with a session.
InitList ==
    PayloadConstructed /\ DashConstructed /\ mounted = "list" /\ ShellIdle("cases") /\ ListInit /\ DetailConstructed
        /\ EditorConstructed("list") /\ BackendIdle /\ NetInit
SpecList == InitList /\ [][ListNext]_vars

\* The case detail page, entered with a session.
InitDetail ==
    PayloadConstructed /\ DashConstructed /\ mounted = "detail" /\ ShellIdle("detail") /\ ListIdle /\ DetailConstructed
        /\ EditorConstructed("detail") /\ BackendInit /\ NetInit
SpecDetail == InitDetail /\ [][DetailNext]_vars

\* The host page with the editor it renders.
HostInit(h) ==
    /\ ShellIdle(PageOf(h))
    /\ EditorConstructed(h)
    /\ IF h = "list" THEN ListLoaded /\ DetailConstructed
       ELSE ListIdle /\ DetailLoaded

\* The editor's fields and its save, on either host.
InitForm ==
    /\ mounted = "form"
    /\ DashConstructed
    /\ PayloadConstructed
    /\ Backend(<<>>, <<>>)
    /\ \E h \in Hosts : HostInit(h)
    /\ NetInit
SpecForm == InitForm /\ [][FormNext]_vars

\* The editor's attachments and its save, on the list page.
InitFiles ==
    /\ mounted = "files"
    /\ DashConstructed
    /\ PayloadConstructed
    /\ Backend(<<>>, <<[lawName |-> "x", content |-> "x"]>>)
    /\ HostInit("list")
    /\ NetInit
SpecFiles == InitFiles /\ [][FilesNext]_vars

\* Any one unit.
\* The pages that hold a destructive action: the list, the detail page and
\* the editor's attachments.
InitPages == InitList \/ InitDetail \/ InitFiles
PagesNext == ListNext \/ DetailNext \/ FilesNext
SpecPages == InitPages /\ [][PagesNext]_vars

\* The dashboard, entered with a session.
InitDash ==
    /\ mounted = "dash"
    /\ ShellIdle("home")
    /\ ListIdle
    /\ DetailConstructed
    /\ EditorConstructed("list")
    /\ BackendIdle
    /\ DashConstructed
    /\ PayloadConstructed
    /\ NetInit
SpecDash == InitDash /\ [][DashNext]_vars

\* The tags of the payload, for every text of the tags input.
InitPayload ==
    /\ mounted = "payload"
    /\ HostInit("list")
    /\ BackendIdle
    /\ DashConstructed
    /\ PayloadConstructed
    /\ NetInit
SpecPayload == InitPayload /\ [][PayloadNext]_vars

\* The editor's attachments on the list page, the case stored with none, one
\* or two of them.
InitDrag ==
    /\ mounted = "drag"
    /\ DashConstructed
    /\ PayloadConstructed
    /\ \E n \in 0..Len(AllKeys) :
           Backend(SubSeq(AllKeys, 1, n), <<[lawName |-> "x", content |-> "x"]>>)
    /\ HostInit("list")
    /\ NetInit
SpecAttach == InitDrag /\ [][AttachNext]_vars
SpecDrag == InitDrag /\ [][DragNext]_vars

Init == InitShell \/ InitList \/ InitDetail \/ InitForm \/ InitFiles \/ InitDash
            \/ InitPayload \/ InitDrag
Next == ShellNext \/ ListNext \/ DetailNext \/ FormNext \/ FilesNext \/ DashNext
            \/ PayloadNext \/ AttachNext \/ DragNext
Spec == Init /\ [][Next]_vars

\* ================================================================ claims

\* C1: every answer with HTTP 401, to whichever call and with whatever else
\* in flight, leaves 'token' and 'user' removed from localStorage and the
\* location on the login route; it assigns window.location.href and raises
\* the session-expired notification once when it arrived off the login route,
\* and does neither when it arrived on the login route.
C1_On401ClearsAndRedirectsOnce ==
    lastResp.status = 401 =>
        /\ lsToken = NoToken
        /\ lsUser = NoUser
        /\ hash = "login"
        /\ hrefWrites = (IF lastResp.at = "login" THEN 0 ELSE 1)
        /\ Cardinality({i \in DOMAIN toasts : toasts[i] = Err("expired")})
             = (IF lastResp.at = "login" THEN 0 ELSE 1)

\* A 401 answered to a call of a protected view after the location has
\* already been moved to the login route.
C1_Witness ==
    /\ step = "DataResponse"
    /\ lastResp.status = 401
    /\ lastResp.at = "login"
    /\ hrefWrites = 0
    /\ toasts = <<>>

\* C2: a protected view is rendered only while a token is stored (the claim
\* as stated: never after a 401 or a logout has removed it).
C2_ProtectedOnlyWithSession ==
    ProtectedViewRendered => lsToken # NoToken

C8_TagRoundTrip ==
    [][ /\ step' = "SelectTag" =>
              /\ url'.tag = (IF selectedTag' = "" THEN Absent ELSE selectedTag')
              /\ sent' = <<Req("list", FetchParams(1, keyword', selectedTag', sortDir'), <<>>)>>
        /\ step' = "ListReload" =>
              /\ selectedTag' = selectedTag
              /\ keyword' = keyword
        /\ step' = "ListMount" =>
              /\ Len(sent') = 2
              /\ sent'[2].kind = "list"
              /\ sent'[2].p.tag = selectedTag
              /\ sent'[2].p.keyword = keyword
      ]_vars

\* The list has been mounted from a query string with tag=t and asks for t.
C8_Witness ==
    /\ step = "ListMount"
    /\ url.tag = "t"
    /\ selectedTag = "t"
    /\ sent[2].p.tag = "t"

C10_FailureSurfacedOnce ==
    (lastResp.req.kind # "none" /\ IsError(lastResp)) =>
        /\ ErrCount(toasts) = 1
        /\ sent = <<>>

\* C6: an attachment whose deletion succeeded is never again among the
\* attachments the detail view shows.
C6_DeletedNeverShown ==
    DetailShown => \A k \in deletedFiles : k \notin Range(data.att)

\* C3: a submit with the title or the case record empty sends nothing, leaves
\* the editor open and not submitting, and sets the error of each of the two
\* that is empty.
C3_EmptyRequiredBlocksSubmit ==
    (step = "FormSubmit" /\ (title = "" \/ caseRecord = "")) =>
        /\ sent = <<>>
        /\ isOpen
        /\ ~isSubmitting
        /\ title = "" => "title" \in errors
        /\ caseRecord = "" => "caseRecord" \in errors

C3_Witness ==
    /\ step = "FormSubmit"
    /\ title = ""
    /\ caseRecord = "x"
    /\ \A i \in DOMAIN legalProvisions :
           legalProvisions[i].lawName # "" /\ legalProvisions[i].content # ""
    /\ \A i \in DOMAIN preventionMeasures : preventionMeasures[i] # ""
    /\ errors = {"title"}
    /\ sent = <<>>

\* C4: no request in flight carries a file above 50 * 1024 * 1024 bytes, and
\* a drop whose files are all above it sends nothing and leaves the uploading
\* flag and the requests in flight as they were.
C4_OversizeNeverUploaded ==
    [][ /\ \A i \in DOMAIN inflight' : \A j \in DOMAIN inflight'[i].sizes :
               inflight'[i].sizes[j] <= 50 * 1024 * 1024
        /\ (step' = "OnDrop" /\ \A j \in DOMAIN dropped' : dropped'[j] > 50 * 1024 * 1024)
               => /\ sent' = <<>>
                  /\ uploading' = uploading
                  /\ inflight' = inflight ]_vars

C4_Witness ==
    /\ step = "OnDrop"
    /\ dropped = <<50 * 1024 * 1024 + 1, 50 * 1024 * 1024>>
    /\ Len(sent) = 1
    /\ sent[1].sizes = <<50 * 1024 * 1024>>
    /\ uploading

\* C5: a request that deletes a case or files is sent only by a step in which
\* the user accepted the confirmation, and a step in which the user declined
\* sends nothing and changes nothing of the pages, the session or the backend.
Destructive == {"deleteCase", "deleteThisCase", "deleteFile", "deleteBatch", "removeAttachment"}

C5_DestructiveOnlyAfterConfirm ==
    [][ /\ \A i \in DOMAIN sent' :
               sent'[i].kind \in Destructive => confirmed' = <<TRUE>>
        /\ confirmed' = <<FALSE>> =>
               /\ sent' = <<>>
               /\ toasts' = <<>>
               /\ UNCHANGED <<shellVars, inflight, pageVars>> ]_vars

C5_Witness ==
    /\ step = "HandleRemoveAttachment"
    /\ confirmed = <<TRUE>>
    /\ Len(sent) = 1
    /\ sent[1].kind = "removeAttachment"

\* C11: an answer that is an error other than 401 raises exactly one of the
\* interceptor's notifications, chosen by status (403: permission denied;
\* 500 and above: server error; any other status: the backend's message or
\* the default; no answer at all: connectivity); it leaves 'token' and 'user'
\* in localStorage as they were and assigns no location; and the caller's
\* catch still runs (login raises its own failure notification, initAuth
\* does not set the user).
C11_NonAuthFailureNotifiedOnly ==
    [][ (lastResp'.req.kind # "none" /\ IsError(lastResp') /\ lastResp'.status # 401) =>
            LET s == lastResp'.status
                class == IF s = 0 THEN Err("network")
                         ELSE IF s = 403 THEN Err("forbidden")
                         ELSE IF s >= 500 THEN Err("server")
                         ELSE Err("backend")
                classes == {Err("network"), Err("forbidden"), Err("server"),
                            Err("backend"), Err("expired")}
            IN  /\ Len(toasts') >= 1
                /\ toasts'[1] = class
                /\ \A i \in 2..Len(toasts') : toasts'[i] \notin classes
                /\ lsToken' = lsToken
                /\ lsUser' = lsUser
                /\ hrefWrites' = 0
                /\ step' = "LoginResponse" =>
                       /\ toasts' = <<class, Err("loginService")>>
                       /\ user' = user
                /\ step' = "WhoamiResponse" => user' = user
      ]_vars

\* A 403 answered to a call of a protected view while a session is stored.
C11_Witness ==
    /\ step = "DataResponse"
    /\ lastResp.status = 403
    /\ toasts = <<Err("forbidden")>>
    /\ lsToken = "tok"
    /\ lsUser = "u1"

\* C12: a login answered with envelope code 200 stores the token and the
\* user, sets the in-memory user and puts the location on the dashboard; a
\* login answered with another code, or rejected, stores nothing (storage
\* keeps what it held, or is emptied by the interceptor on a 401), leaves the
\* in-memory user as it was and does not move the location to the dashboard:
\* the location stays, but for the interceptor's redirect to login on a 401
\* that arrives after the login page was left.
C12_LoginStoresOnlyOn200 ==
    [][ step' = "LoginResponse" =>
            IF ~IsError(lastResp') /\ lastResp'.code = 200
            THEN /\ lsToken' = "tok"
                 /\ lsUser' = "u1"
                 /\ user' = "u1"
                 /\ user' # NoUser
                 /\ hash' = "home"
                 /\ toasts' = <<Ok("welcome")>>
            ELSE /\ lsToken' \in {lsToken, NoToken}
                 /\ lsUser' \in {lsUser, NoUser}
                 /\ (lastResp'.status # 401 => lsToken' = lsToken /\ lsUser' = lsUser)
                 /\ user' = user
                 /\ hash' = (IF lastResp'.status = 401 THEN "login" ELSE hash)
                 /\ (hash = "login" => hash' = "login")
                 /\ OkCount(toasts') = 0
      ]_vars

\* A login has been answered 200 with envelope code 400 on the login page,
\* with nothing stored before or after.
C12_Witness ==
    /\ step = "LoginResponse"
    /\ lastResp.status = 200
    /\ lastResp.code = 400
    /\ lastResp.at = "login"
    /\ hash = "login"
    /\ lsToken = NoToken
    /\ user = NoUser
    /\ toasts = <<Err("loginFailed")>>

\* C13: logout leaves 'token' and 'user' removed from localStorage and the
\* in-memory user null; from then on no call made at load is in flight, and
\* every step other than a login answered with code 200 keeps all of this so.
C13_LoggedOutUntilLogin ==
    [][ LET cleared == lsToken = NoToken /\ lsUser = NoUser /\ user = NoUser
            quiet == \A i \in DOMAIN inflight : inflight[i].kind # "whoami"
            cleared1 == lsToken' = NoToken /\ lsUser' = NoUser /\ user' = NoUser
            quiet1 == \A i \in DOMAIN inflight' : inflight'[i].kind # "whoami"
            login1 == step' = "LoginResponse" /\ ~IsError(lastResp') /\ lastResp'.code = 200
        IN  /\ step' = "Logout" => cleared1 /\ quiet1
            /\ (cleared /\ quiet /\ ~login1) => cleared1 /\ quiet1
      ]_vars

\* After a logout the page was loaded again and initAuth has run: nothing is
\* stored, no user is in memory, and the location is the login page.
C13_Witness ==
    /\ step = "InitAuth"
    /\ lsToken = NoToken
    /\ lsUser = NoUser
    /\ user = NoUser
    /\ ~isLoading
    /\ hash = "login"
    /\ sent = <<>>

\* C14: initAuth with a stored token sets the in-memory user from the stored
\* user when it parses and sends whoami; a whoami that is rejected with
\* anything but a 401, or answered with an envelope code other than 200,
\* leaves 'token', 'user' and the in-memory user as they were and ends
\* loading.  initAuth without a stored token sends nothing, leaves the user
\* null and ends loading.
C14_WhoamiFailureKeepsSession ==
    [][ /\ (step' = "InitAuth" /\ lsToken # NoToken) =>
              /\ sent' = <<Req("whoami", NoP, <<>>)>>
              /\ user' = (IF lsUser \in {"u0", "u1"} THEN lsUser ELSE user)
              /\ lsToken' = lsToken
              /\ lsUser' = lsUser
        /\ (step' = "InitAuth" /\ lsToken = NoToken) =>
              /\ sent' = <<>>
              /\ \A i \in DOMAIN inflight' : inflight'[i].kind # "whoami"
              /\ user' = user
              /\ ~isLoading'
        /\ (step' = "WhoamiResponse" /\ lastResp'.status # 401
                /\ ~(lastResp'.status = 200 /\ lastResp'.code = 200)) =>
              /\ lsToken' = lsToken
              /\ lsUser' = lsUser
              /\ user' = user
              /\ ~isLoading'
      ]_vars

\* whoami got no answer: the session restored from storage is still there.
C14_Witness ==
    /\ step = "WhoamiResponse"
    /\ lastResp.status = 0
    /\ lsToken = "tok"
    /\ lsUser = "u0"
    /\ user = "u0"
    /\ ~isLoading

\* C15: when the dashboard applies a fetched tag list, its top tag is an
\* entry of that list and no entry has a higher count; for an empty list it
\* is the placeholder with count 0.
C15_TopTagHasMaxCount ==
    (step = "DashTagsResponse" /\ ~IsError(lastResp) /\ lastResp.code = 200
        /\ casesRes.code = 200) =>
        LET tags == tagsRes.data
        IN  IF tags = <<>>
            THEN statsData.topTag = [tag |-> "placeholder", count |-> 0]
            ELSE /\ \E i \in DOMAIN tags : tags[i] = statsData.topTag
                 /\ \A i \in DOMAIN tags : tags[i].count <= statsData.topTag.count

\* The list {t: 12, u: 3} has been applied: the top tag is t with count 12.
C15_Witness ==
    /\ step = "DashTagsResponse"
    /\ casesRes.code = 200
    /\ tagsRes = [code |-> 200, data |-> <<[tag |-> "t", count |-> 12], [tag |-> "u", count |-> 3]>>]
    /\ statsData.topTag = [tag |-> "t", count |-> 12]
    /\ ~dashLoading

C17_ListAnswersAppliedInArrivalOrder ==
    [][ /\ step' \notin {"ListResponse", "ListReload"} =>
              LET before == SelectSeq(inflight, LAMBDA q : q.kind = "list")
                  after == SelectSeq(inflight', LAMBDA q : q.kind = "list")
              IN  /\ Len(before) <= Len(after)
                  /\ SubSeq(after, 1, Len(before)) = before
        /\ (step' = "ListResponse" /\ ~IsError(lastResp') /\ lastResp'.code = 200) =>
              /\ cases' = lastResp'.req.p.page
              /\ ~loading'
      ]_vars

\* Page 2 was asked for, then page 1; the answer for page 2 came last: with
\* nothing in flight the list shows page 2 while the current page is 1.
C17_Witness ==
    /\ step = "ListResponse"
    /\ inflight = <<>>
    /\ ~loading
    /\ page = 1
    /\ lastResp.req.p.page = 2
    /\ lastResp.req.p # FetchParams(page, keyword, selectedTag, sortDir)
    /\ cases = 2

\* C18: a save is sent only while no save and no attachment upload of the
\* editor is in flight.
C18_NoSaveWhileSaveOrUpload ==
    [][ (step' = "FormSubmit" /\ sent' # <<>>) =>
            \A i \in DOMAIN inflight :
                /\ inflight[i].kind \notin {"create", "update"}
                /\ inflight[i].kind = "uploadBatch" => inflight[i].orphan
      ]_vars

\* C19: the answer to DELETE /files for an attachment of the editor, when
\* the call resolved, leaves the form's list as it was but for that
\* attachment, the others in their order; when the call was rejected it
\* leaves the list as it was.
C19_RemovesExactlyThatAttachment ==
    [][ (step' = "RemoveAttachmentResponse" /\ ~lastResp'.req.orphan) =>
            IF ~IsError(lastResp')
            THEN attachments' = SelectSeq(attachments,
                                          LAMBDA k : k \notin Range(lastResp'.req.keys))
            ELSE attachments' = attachments
      ]_vars

\* C20: a drop sends its accepted files, all of them, in one uploadBatch
\* request (none when no file is accepted); an answer with code 200 makes the
\* form's attachment list the list as it is at that moment followed by the
\* records returned, one per file sent, in the order returned; any other
\* answer leaves the list as it is; every answer sets uploading to false.
C20_BatchUploadAppends ==
    [][ /\ step' = "OnDrop" =>
              LET accepted == SelectSeq(dropped', LAMBDA f : f <= 50 * 1024 * 1024)
              IN  IF accepted = <<>>
                  THEN sent' = <<>>
                  ELSE sent' = <<ReqFiles("uploadBatch", accepted)>>
        /\ step' = "UploadResponse" =>
              /\ IF ~IsError(lastResp') /\ lastResp'.code = 200
                 THEN LET returned == NewKeys(Len(lastResp'.req.sizes))
                      IN  /\ Len(returned) = Len(lastResp'.req.sizes)
                          /\ attachments' = attachments \o returned
                 ELSE attachments' = attachments
              /\ ~uploading'
      ]_vars

\* Two files were uploaded and answered with code 200 while the form held
\* nothing: the form lists the two returned records in the order returned.
C20_Witness ==
    /\ step = "UploadResponse"
    /\ lastResp.code = 200
    /\ Len(lastResp.req.sizes) = 2
    /\ attachments = <<"a", "b">>
    /\ ~uploading

\* C22: the filter/sort button, when keyword or selected tag is set, empties
\* both and sets page to 1 with the sort direction as it was; when both are
\* empty it flips the sort direction between desc and asc with keyword, tag
\* and page as they were.
C22_ResetOrToggle ==
    [][ step' = "HandleFilterOrSort" =>
            IF keyword # "" \/ selectedTag # ""
            THEN /\ keyword' = ""
                 /\ selectedTag' = ""
                 /\ page' = 1
                 /\ sortDir' = sortDir
            ELSE /\ sortDir' = (IF sortDir = "desc" THEN "asc" ELSE "desc")
                 /\ sortDir' \in {"asc", "desc"}
                 /\ keyword' = keyword
                 /\ selectedTag' = selectedTag
                 /\ page' = page
      ]_vars

\* The button was pressed on page 2 with a tag selected and the list sorted
\* ascending: the tag is gone, the page is 1, the direction still ascending.
C22_Witness ==
    /\ step = "HandleFilterOrSort"
    /\ toasts = <<Ok("filtersReset")>>
    /\ keyword = ""
    /\ selectedTag = ""
    /\ page = 1
    /\ sortDir = "asc"

\* C23: every step of the shown list that changes page, keyword, selected
\* tag or sort direction sends exactly one list request, carrying the values
\* after the step with size 10 and sortBy createDate, keyword and tags being
\* in the request only when non-empty; a step that changes keyword or tag
\* leaves page at 1.
C23_EveryChangeRefetches ==
    [][ (<<page, keyword, selectedTag, sortDir>>' # <<page, keyword, selectedTag, sortDir>>
            /\ step' # "ListReload") =>
            /\ Len(sent') = 1
            /\ sent'[1].kind = "list"
            /\ inflight' = Append(inflight, sent'[1])
            /\ ListQuery(sent'[1].p) =
                   [page |-> page', size |-> 10, sortDir |-> sortDir', sortBy |-> "createDate",
                    keyword |-> IF keyword' = "" THEN Absent ELSE keyword',
                    tags |-> IF selectedTag' = "" THEN Absent ELSE <<selectedTag'>>]
            /\ (keyword' # keyword \/ selectedTag' # selectedTag) => page' = 1
      ]_vars

\* Page 1, fetched at mount, is asked for again when the user comes back to
\* it from page 2.
C23_Witness ==
    /\ step = "HandlePageChange"
    /\ page = 1
    /\ Len(sent) = 1
    /\ sent[1].kind = "list"
    /\ sent[1].p.page = 1

\* C26: in the shown list, loading is true exactly when a list request is in
\* flight.
C26_LoadingIffListInFlight ==
    ListShown => (loading <=> \E i \in DOMAIN inflight : inflight[i].kind = "list")

\* C27: page is at least 1, and with no list request in flight and
\* totalPages at least 1 it is at most totalPages.
C27_PageWithinTotal ==
    ListShown =>
        /\ page >= 1
        /\ ((\A i \in DOMAIN inflight : inflight[i].kind # "list") /\ totalPages >= 1)
               => page <= totalPages

\* C28: a step that handles the answer to a create, update or delete and
\* raises a success notification, closes the editor or sends a refresh has
\* handled an answer whose envelope carries code 200.
C28_SuccessOnlyOnCode200 ==
    (step \in {"DeleteResponse", "SaveResponse", "CaseDeleteResponse"}
        /\ (OkCount(toasts) > 0 \/ sent # <<>>)) =>
        (~IsError(lastResp) /\ lastResp.code = 200)

\* C29: in the shown detail view every selected key is the storage key of an
\* attachment of the case as shown.
C29_SelectionWithinAttachments ==
    DetailShown => selectedAttachments \subseteq Range(data.att)

C21_DragOverMovesDragged ==
    [][ /\ step' \in {"HandleDragStart", "HandleDragOver", "HandleDragEnd"} =>
               sent' = <<>> /\ inflight' = inflight
        /\ step' = "HandleDragOver" =>
               IF draggedItemIndex = 0 \/ draggedItemIndex = dragTarget'
               THEN attachments' = attachments /\ draggedItemIndex' = draggedItemIndex
               ELSE /\ draggedItemIndex \in DOMAIN attachments
                    /\ Len(attachments') = Len(attachments)
                    /\ \A k \in Range(attachments) \cup Range(attachments') :
                           Len(SelectSeq(attachments', LAMBDA x : x = k))
                               = Len(SelectSeq(attachments, LAMBDA x : x = k))
                    /\ attachments'[dragTarget'] = attachments[draggedItemIndex]
                    /\ Remove(attachments', dragTarget')
                           = Remove(attachments, draggedItemIndex)
                    /\ draggedItemIndex' = dragTarget'
        /\ (step' = "FormSubmit" /\ sent' # <<>>) => sent'[1].keys = attachments
      ]_vars

\* C25: with the editor open and nothing in flight, the form's attachment
\* list holds no undefined entry and no attachment whose file was deleted,
\* and holds every attachment that was loaded with the case or stored by an
\* upload and whose file was not deleted.
C25_ListIsLoadedAndUploadedNotDeleted ==
    (mounted = "drag" /\ isOpen /\ inflight = <<>>) =>
        /\ Undefined \notin Range(attachments)
        /\ Range(attachments) \cap deletedFiles = {}
        /\ allocated \ deletedFiles \subseteq Range(attachments)
====
